---- MODULE Spec2Model ----
(***************************************************************************)
(* A state-machine model of the och-alerts reconciliation engine:          *)
(*   - the live Staked path        (src/monitor/stakingMonitor.ts)         *)
(*   - the retry queue             (src/monitor/revealQueue.ts)            *)
(*   - the State Store helpers     (src/utils/metadata.ts)                 *)
(*   - the notifier                (src/twitter/twitter.ts)                *)
(*   - the subscription registry   (src/clients/wsClient.ts)               *)
(*   - the reveal detector         (src/utils/detectReveal.ts)             *)
(*   - the bulk reconciliation     (src/scripts/initMetadata.ts)           *)
(* Every await of the source is an interleaving point: the part of a       *)
(* handler between two awaits is one action.  What an external service     *)
(* answers (metadata source, State Store, Twitter) is chosen with \E.      *)
(***************************************************************************)
EXTENDS Integers, Sequences, FiniteSets, Bags, TLC

\* ------------------------------------------------------------------ inputs

\* Token ids and owner addresses the environment may put in a log.
Tokens == {5, 42}
Owners == {"0xAA", "0xBB"}

\* An image reference is the sequence of the segments of its URL.
UNREVEALED_URL == <<"storage.onchainheroes.xyz", "unrevealed", "hero.gif">>
OtherUnrevealedImage == <<"storage.onchainheroes.xyz", "unrevealed", "hero2.gif">>
HeroImage == <<"storage.onchainheroes.xyz", "hero", "123.png">>
\* metadata.image absent (undefined)
NoImage == <<>>
Images == {UNREVEALED_URL, OtherUnrevealedImage, HeroImage, NoImage}

\* The "Season 1 Level" attribute: <<>> when absent, <<n>> when present.
NoLevel == <<>>
Levels == {NoLevel, <<0>>, <<1>>, <<2>>}

\* The value of a closure's metadata before its fetch has returned.
NotFetched == <<"not fetched">>
\* The value recorded for a fetch that failed (network, timeout, non-2xx).
FetchFailed == <<"fetch failed">>
\* The value recorded for a fetch that resolved, where the image is not kept.
Fetched == <<"fetched">>
\* The value recorded for a job that was dropped because its token was revealed.
Skipped == <<"skipped">>

\* ------------------------------------------------------------------ bounds

\* Staked logs the environment delivers in one run.
MaxLogs == 2
\* enqueueReveal calls in one run.
MaxEnqueues == 2
\* processQueueOnce calls that find work in one run.
MaxCycleStarts == 2
\* processQueueOnce calls that may be awaiting their tasks at the same time.
MaxOverlap == 1
\* The same where a tick may find the cycle of the tick before unfinished.
MaxTicksInFlight == 2
\* onOpen calls in one run: the first connection and the reconnections.
MaxOpens == 2
\* registerSubscription calls in one run.
MaxSubscriptions == 2
\* detectAndStoreReveal calls in one run.
MaxDetects == 1
\* Death batches delivered, and handler calls of a wrapped subscription.
MaxBatches == 1
MaxHandlerCalls == 2
\* Reconnection tries in a row.
MaxAttempts == 7
MaxSignals == 2

\* ------------------------------------------------------------------- state

VARIABLES
    store,                \* Hero collection: tokenId -> "none" | "unrevealed" | "revealed"
    unrevealedTokensSet,  \* stakingMonitor.ts: the Working Set
    timers,               \* pending settle-delay timers, in the order they were set
    liveChecks,           \* bag of the timer callbacks that are past their first await
    stakedDelivered,      \* Staked logs handed to handleStakingLog, per token
    liveTweetCalls,       \* tweetReveal calls made by the live path, per token
    retryTweetCalls,      \* tweetReveal calls made by the retry queue, per token
    tweetPosts,           \* sendTweet calls that succeeded, per token
    isInitialized,        \* twitter.ts: the login flag
    pendingReveals,       \* revealQueue.ts: the retry queue
    cycles,               \* the processQueueOnce calls that are awaiting their tasks
    enqueued,             \* enqueueReveal calls so far
    cyclesStarted,        \* processQueueOnce calls that found a non-empty queue
    activeSubscriptions,  \* wsClient.ts: the callbacks to call on reconnection
    connected,            \* whether the WebSocket is open
    opens,                \* onOpen calls so far
    restoreLog,           \* the callbacks the latest onOpen called, in call order
    loads,                \* loadUnrevealedTokens calls awaiting Hero.find, per caller
    stakingSubs,          \* watchEvent subscriptions to Staked set up so far
    deathSubs,            \* watchEvent subscriptions to Death set up so far
    detects,              \* bag of the detectAndStoreReveal calls in progress
    detectCalls,          \* detectAndStoreReveal calls so far
    scriptPc,             \* initMetadata.ts: where initAllMetadata is
    dbUnrevealedIds,      \* getTokensToUpdate: the result of its first query
    scriptTasks,          \* processTokenRange: the task of each pending token
    failedTokens,         \* processTokenRange: the tokens that failed, in push order
    fullLoopCount,        \* initAllMetadata: the loop counter
    deathRuns,            \* endgameMonitor.ts: the onLogs calls, each a batch of logs
    wrapperCalls,         \* safeOnLogs and safeOnError calls of a wrapped subscription
    onErrorCalls,         \* calls of the caller's onError made by the wrapper
    caught,               \* exceptions caught and logged by the wrapper
    escaped,              \* exceptions that left safeOnLogs or safeOnError
    mainPc,               \* index.ts: where main is
    mongoRetryCount,      \* main: connectMongoDB calls so far
    mongoConnected,       \* main: whether a connectMongoDB call has returned
    exitCode,             \* the code given to process.exit, <<>> while running
    attemptCount,         \* wsClient.ts: the attempt count of the latest reconnection try
    retryDelay,           \* the delay retryDelay gave for it, in milliseconds
    graceWaits,           \* index.ts: signal handlers waiting on their 2000 ms timer
    syncPc,               \* stakingMonitor.ts (part_003): where the historical monitor is
    lastBlockHandled,     \* storage.ts: the Redis value of "lastBlockHandled", <<>> when unset
    fromBlock,            \* syncHistoricalEvents: its argument
    latestBlock,          \* syncHistoricalEvents: <<latestBlock>> once getBlockNumber returned
    batches,              \* syncHistoricalEvents: the [start, end] ranges queried so far
    logsLeft,             \* syncHistoricalEvents: logs of the current batch not yet handled
    revealedHeroes,       \* storage.ts: the Redis set "revealedHeroes"
    syncFailed,           \* whether the catch of syncHistoricalEvents has run
    notifierCalls         \* twitter.ts: the calls of the notifier, each with its position

liveVars == <<unrevealedTokensSet, timers, liveChecks, stakedDelivered, liveTweetCalls>>
twitterVars == <<tweetPosts, isInitialized>>
queueVars == <<pendingReveals, cycles, enqueued, cyclesStarted, retryTweetCalls>>

wsVars == <<activeSubscriptions, connected, opens, restoreLog, loads, stakingSubs, deathSubs>>
detectVars == <<detects, detectCalls>>
scriptVars == <<scriptPc, dbUnrevealedIds, scriptTasks, failedTokens, fullLoopCount>>
eventVars == <<deathRuns, wrapperCalls, onErrorCalls, caught, escaped>>
mainVars == <<mainPc, mongoRetryCount, mongoConnected, exitCode>>
backoffVars == <<attemptCount, retryDelay>>
syncVars == <<syncPc, lastBlockHandled, fromBlock, latestBlock, batches, logsLeft,
              revealedHeroes, syncFailed>>
moreVars == <<eventVars, mainVars, backoffVars, graceWaits, syncVars, notifierCalls>>
restVars == <<wsVars, detectVars, scriptVars, moreVars>>

vars == <<store, liveVars, twitterVars, queueVars, restVars>>

StoreValues == {"none", "unrevealed", "revealed"}

RECURSIVE SumOver(_, _)
SumOver(f, S) ==
    IF S = {} THEN 0
    ELSE LET x == CHOOSE y \in S : TRUE IN f[x] + SumOver(f, S \ {x})

\* ------------------------------------------------------------- State Store

\* Hero.find({ isRevealed: false }): the records whose flag is false.
FindUnrevealed(db) == {t \in Tokens : db[t] = "unrevealed"}

\* A read that answers false whatever the record says.
neverRevealed(db, tokenId) == FALSE

\* isHeroRevealed: a missing record reads as not revealed.
isHeroRevealed(db, tokenId) ==
    IF db[tokenId] = "none" THEN FALSE ELSE db[tokenId] = "revealed"

\* setHeroRevealed: findOneAndUpdate({tokenId}, {isRevealed: true}, {upsert: true}).
setHeroRevealed(db, tokenId) == [db EXCEPT ![tokenId] = "revealed"]

\* ---------------------------------------------------------------- notifier

\* tweetReveal: whether sendTweet is reached and succeeds.  A failed login, an
\* undefined image (imageUrl.toLowerCase() throws) and a failed download or send
\* all end in the catch of tweetReveal.
TweetSent(image, loggedIn, loginOk, sendOk) ==
    /\ loggedIn \/ loginOk
    /\ image # NoImage
    /\ sendOk

\* isInitialized after tweetReveal: initTwitterClient sets it after a good login.
LoggedInAfter(loggedIn, loginOk) == loggedIn \/ loginOk

tweetReveal(tokenId, image, loginOk, sendOk) ==
    /\ tweetPosts' = [tweetPosts EXCEPT ![tokenId] =
                        IF TweetSent(image, isInitialized, loginOk, sendOk)
                        THEN @ + 1 ELSE @]
    /\ isInitialized' = LoggedInAfter(isInitialized, loginOk)

\* ------------------------------------------------------- live Staked path

\* A level test that also suppresses the tweet of a level-1 hero.
LevelAtLeastOne(level) == level # NoLevel /\ level[1] >= 1

\* `level && level > 1`: an absent level and a level of 0 are falsy.
LevelAboveOne(level) == level # NoLevel /\ level[1] # 0 /\ level[1] > 1

LiveCheck(tokenId, owner, pc, image, level, tweeted) ==
    [tokenId |-> tokenId, owner |-> owner, pc |-> pc,
     image |-> image, level |-> level, tweeted |-> tweeted]

\* A handler that starts the metadata fetch at once, with no settle delay.
fetchUndelayed(owner, tokenId) ==
    /\ SumOver(stakedDelivered, Tokens) < MaxLogs
    /\ stakedDelivered' = [stakedDelivered EXCEPT ![tokenId] = @ + 1]
    /\ IF tokenId \notin unrevealedTokensSet
       THEN liveChecks' = liveChecks
       ELSE liveChecks' = liveChecks (+)
               SetToBag({LiveCheck(tokenId, owner, "fetch", NotFetched, NoLevel, 0)})
    /\ UNCHANGED <<store, unrevealedTokensSet, timers, liveTweetCalls,
                   twitterVars, queueVars, restVars>>

\* A handler that sets the settle-delay timer without looking at the Working Set.
scheduleUnchecked(owner, tokenId) ==
    /\ SumOver(stakedDelivered, Tokens) < MaxLogs
    /\ stakedDelivered' = [stakedDelivered EXCEPT ![tokenId] = @ + 1]
    /\ timers' = Append(timers, [tokenId |-> tokenId, owner |-> owner])
    /\ UNCHANGED <<store, unrevealedTokensSet, liveChecks, liveTweetCalls,
                   twitterVars, queueVars, restVars>>

\* handleStakingLog up to setTimeout: a token outside the Working Set is ignored.
handleStakingLog(owner, tokenId) ==
    /\ SumOver(stakedDelivered, Tokens) < MaxLogs
    /\ stakedDelivered' = [stakedDelivered EXCEPT ![tokenId] = @ + 1]
    /\ IF tokenId \notin unrevealedTokensSet
       THEN timers' = timers
       ELSE timers' = Append(timers, [tokenId |-> tokenId, owner |-> owner])
    /\ UNCHANGED <<store, unrevealedTokensSet, liveChecks, liveTweetCalls,
                   twitterVars, queueVars, restVars>>

\* The settle delay elapses: the callback starts and awaits axios.get.
TimerFires ==
    /\ timers # <<>>
    /\ LET t == Head(timers) IN
       liveChecks' = liveChecks (+)
           SetToBag({LiveCheck(t.tokenId, t.owner, "fetch", NotFetched, NoLevel, 0)})
    /\ timers' = Tail(timers)
    /\ UNCHANGED <<store, unrevealedTokensSet, stakedDelivered, liveTweetCalls,
                   twitterVars, queueVars, restVars>>

\* A callback that stops watching a token whose fetch failed.
LiveFetchGivesUp(c) ==
    /\ c.pc = "fetch"
    /\ liveChecks' = liveChecks (-) SetToBag({c})
    /\ unrevealedTokensSet' = unrevealedTokensSet \ {c.tokenId}
    /\ UNCHANGED <<store, timers, stakedDelivered,
                   liveTweetCalls, twitterVars, queueVars, restVars>>

\* axios.get rejects: the catch logs and the callback ends.
LiveFetchFails(c) ==
    /\ c.pc = "fetch"
    /\ liveChecks' = liveChecks (-) SetToBag({c})
    /\ UNCHANGED <<store, unrevealedTokensSet, timers, stakedDelivered,
                   liveTweetCalls, twitterVars, queueVars, restVars>>

\* A callback that writes first: a resolved check goes to setHeroRevealed
\* without the tweetReveal call.
LiveFetchWritesFirst(c, image, level) ==
    /\ c.pc = "fetch"
    /\ IF image = UNREVEALED_URL
       THEN liveChecks' = liveChecks (-) SetToBag({c})
       ELSE liveChecks' = (liveChecks (-) SetToBag({c})) (+)
                SetToBag({LiveCheck(c.tokenId, c.owner, "store", image, level, 0)})
    /\ UNCHANGED <<store, unrevealedTokensSet, timers, stakedDelivered, liveTweetCalls,
                   twitterVars, queueVars, restVars>>

\* axios.get resolves: sentinel -> return; level > 1 -> straight to the write;
\* otherwise tweetReveal is called and awaited.
LiveFetchReturns(c, image, level) ==
    /\ c.pc = "fetch"
    /\ IF image = UNREVEALED_URL
       THEN /\ liveChecks' = liveChecks (-) SetToBag({c})
            /\ UNCHANGED liveTweetCalls
       ELSE IF LevelAboveOne(level)
       THEN /\ liveChecks' = (liveChecks (-) SetToBag({c})) (+)
                SetToBag({LiveCheck(c.tokenId, c.owner, "store", image, level, 0)})
            /\ UNCHANGED liveTweetCalls
       ELSE /\ liveChecks' = (liveChecks (-) SetToBag({c})) (+)
                SetToBag({LiveCheck(c.tokenId, c.owner, "tweet", image, level, 1)})
            /\ liveTweetCalls' = [liveTweetCalls EXCEPT ![c.tokenId] = @ + 1]
    /\ UNCHANGED <<store, unrevealedTokensSet, timers, stakedDelivered,
                   twitterVars, queueVars, restVars>>

\* A timer callback into whose catch a failed notification is thrown.
LiveTweetThrows(c, loginOk, sendOk) ==
    /\ c.pc = "tweet"
    /\ tweetReveal(c.tokenId, c.image, loginOk, sendOk)
    /\ liveChecks' = (liveChecks (-) SetToBag({c})) (+)
           (IF TweetSent(c.image, isInitialized, loginOk, sendOk)
            THEN SetToBag({[c EXCEPT !.pc = "store"]}) ELSE EmptyBag)
    /\ UNCHANGED <<store, unrevealedTokensSet, timers, stakedDelivered,
                   liveTweetCalls, queueVars, restVars>>

\* tweetReveal returns (it never throws): setHeroRevealed is called and awaited.
LiveTweetReturns(c, loginOk, sendOk) ==
    /\ c.pc = "tweet"
    /\ tweetReveal(c.tokenId, c.image, loginOk, sendOk)
    /\ liveChecks' = (liveChecks (-) SetToBag({c})) (+)
           SetToBag({[c EXCEPT !.pc = "store"]})
    /\ UNCHANGED <<store, unrevealedTokensSet, timers, stakedDelivered,
                   liveTweetCalls, queueVars, restVars>>

\* setHeroRevealed resolves: the token leaves the Working Set.
LiveStoreReturns(c) ==
    /\ c.pc = "store"
    /\ store' = setHeroRevealed(store, c.tokenId)
    /\ unrevealedTokensSet' = unrevealedTokensSet \ {c.tokenId}
    /\ liveChecks' = liveChecks (-) SetToBag({c})
    /\ UNCHANGED <<timers, stakedDelivered, liveTweetCalls, twitterVars, queueVars, restVars>>

\* A catch that gives the token up when the write is rejected.
LiveStoreFailsAndForgets(c) ==
    /\ c.pc = "store"
    /\ unrevealedTokensSet' = unrevealedTokensSet \ {c.tokenId}
    /\ liveChecks' = liveChecks (-) SetToBag({c})
    /\ UNCHANGED <<store, timers, stakedDelivered,
                   liveTweetCalls, twitterVars, queueVars, restVars>>

\* setHeroRevealed rejects (StoreError): the catch logs, the token stays watched.
LiveStoreFails(c) ==
    /\ c.pc = "store"
    /\ liveChecks' = liveChecks (-) SetToBag({c})
    /\ UNCHANGED <<store, unrevealedTokensSet, timers, stakedDelivered,
                   liveTweetCalls, twitterVars, queueVars, restVars>>


\* ------------------------------------------------------------ retry queue

CONCURRENCY_LIMIT == 5
MAX_RETRIES_PER_JOB == 5

Job(tokenId, owner, retryCount) ==
    [tokenId |-> tokenId, owner |-> owner, retryCount |-> retryCount]

\* One limit-wrapped task of a processQueueOnce call.  pc: "queued" (waiting for
\* a p-limit slot), "check" (awaiting isHeroRevealed), "alert" (awaiting
\* fetchMetadataAndAlert), "store" (awaiting setHeroRevealed), "done".
\* fetched: whether the axios.get of fetchMetadataAndAlert resolved (Fetched)
\* or rejected (FetchFailed), kept while pc = "store"; Skipped once the task
\* has returned at `if (alreadyRevealed)`.
Task(job, pc, fetched) == [job |-> job, pc |-> pc, fetched |-> fetched]

ActivePcs == {"check", "alert", "store"}

\* The state of revealQueue.ts when the module is loaded.
QueueIdle ==
    /\ pendingReveals = <<>>
    /\ cycles = <<>>
    /\ enqueued = 0
    /\ cyclesStarted = 0
    /\ retryTweetCalls = [t \in Tokens |-> 0]

\* A duplicate test that looks at the oldest job only.
alreadyAtHead(queue, tokenId, owner) ==
    queue # <<>> /\ queue[1].tokenId = tokenId /\ queue[1].owner = owner

\* pendingReveals.some(job => job.tokenId === tokenId && job.owner === owner)
alreadyInQueue(queue, tokenId, owner) ==
    \E i \in 1..Len(queue) : queue[i].tokenId = tokenId /\ queue[i].owner = owner

enqueueReveal(tokenId, owner) ==
    /\ enqueued < MaxEnqueues
    /\ enqueued' = enqueued + 1
    /\ pendingReveals' =
          IF alreadyInQueue(pendingReveals, tokenId, owner)
          THEN pendingReveals
          ELSE Append(pendingReveals, Job(tokenId, owner, 0))
    /\ UNCHANGED <<store, liveVars, twitterVars, cycles, cyclesStarted, retryTweetCalls, restVars>>

\* A task is named by the position of its cycle and its position in the cycle.
LiveTaskIdsOf(cs) == UNION {{<<k, i>> : i \in 1..Len(cs[k].tasks)} : k \in 1..Len(cs)}
LiveTaskIds == LiveTaskIdsOf(cycles)
TaskAt(id) == cycles[id[1]].tasks[id[2]]

\* p-limit: the tasks that hold a slot.
ActiveCountOf(cs) ==
    Cardinality({id \in LiveTaskIdsOf(cs) : cs[id[1]].tasks[id[2]].pc \in ActivePcs})
ActiveCount == ActiveCountOf(cycles)

\* p-limit's queue is first in, first out.
Earlier(a, b) == a[1] < b[1] \/ (a[1] = b[1] /\ a[2] < b[2])
QueuedIdsOf(cs) == {id \in LiveTaskIdsOf(cs) : cs[id[1]].tasks[id[2]].pc = "queued"}
FirstQueuedOf(cs) ==
    CHOOSE id \in QueuedIdsOf(cs) : \A other \in QueuedIdsOf(cs) : ~Earlier(other, id)

\* A limiter that always has a free slot.
SlotAlwaysFree(active) == TRUE

\* Whether p-limit lets a waiting task start.
SlotFree(active) == active < CONCURRENCY_LIMIT

\* p-limit starts waiting tasks, oldest first, while a slot is free.  It does
\* so in a microtask after limit(fn) and in the completion of a task, before
\* any other callback runs; a started task runs up to `await isHeroRevealed`.
RECURSIVE Admit(_)
Admit(cs) ==
    IF QueuedIdsOf(cs) # {} /\ SlotFree(ActiveCountOf(cs))
    THEN LET id == FirstQueuedOf(cs) IN
         Admit([cs EXCEPT ![id[1]].tasks[id[2]].pc = "check"])
    ELSE cs

SetTask(id, pc, fetched) ==
    [cycles EXCEPT ![id[1]].tasks[id[2]].pc = pc,
                   ![id[1]].tasks[id[2]].fetched = fetched]

\* processQueueOnce up to `await Promise.all(tasks)`: one task per queued job,
\* nextPending empty.  An empty queue returns at once and changes nothing.
StartCycle(overlap) ==
    /\ pendingReveals # <<>>
    /\ cyclesStarted < MaxCycleStarts
    /\ Len(cycles) < overlap
    /\ cyclesStarted' = cyclesStarted + 1
    /\ cycles' = Admit(Append(cycles,
          [tasks |-> [i \in 1..Len(pendingReveals) |->
                         Task(pendingReveals[i], "queued", NotFetched)],
           nextPending |-> <<>>]))
    /\ UNCHANGED <<store, liveVars, twitterVars, pendingReveals, enqueued, retryTweetCalls, restVars>>

\* A tick of the interval (or the first pass of startQueueProcessing) while
\* fewer than MaxOverlap earlier cycles are still awaiting their tasks.
processQueueOnce == StartCycle(MaxOverlap)

\* The catch of a task: re-push with retryCount + 1 below the ceiling, else abandon.
WillRetry(retryCount) == retryCount + 1 < MAX_RETRIES_PER_JOB

TaskCaught(id) ==
    LET job == TaskAt(id).job IN
    Admit([cycles EXCEPT ![id[1]].tasks[id[2]].pc = "done",
                   ![id[1]].tasks[id[2]].fetched = NotFetched,
                   ![id[1]].nextPending =
                       IF WillRetry(job.retryCount)
                       THEN Append(@, Job(job.tokenId, job.owner, job.retryCount + 1))
                       ELSE @])

\* isHeroRevealed resolves: already revealed -> the job is done and dropped;
\* otherwise fetchMetadataAndAlert is called and awaited.
TaskCheckReturns(id) ==
    /\ TaskAt(id).pc = "check"
    /\ cycles' = IF isHeroRevealed(store, TaskAt(id).job.tokenId)
                 THEN Admit(SetTask(id, "done", Skipped))
                 ELSE SetTask(id, "alert", NotFetched)
    /\ UNCHANGED <<store, liveVars, twitterVars, pendingReveals, enqueued,
                   cyclesStarted, retryTweetCalls, restVars>>

\* isHeroRevealed rejects (StoreError): the catch of the task.
TaskCheckFails(id) ==
    /\ TaskAt(id).pc = "check"
    /\ cycles' = TaskCaught(id)
    /\ UNCHANGED <<store, liveVars, twitterVars, pendingReveals, enqueued,
                   cyclesStarted, retryTweetCalls, restVars>>

\* fetchMetadataAndAlert returns.  After its 5 s delay, axios.get resolved and
\* any truthy image was passed to tweetReveal (no image: a warning), or
\* axios.get rejected and its own catch logged the error: in every case the
\* function returns normally and setHeroRevealed is called.
AlertTweets(fetchOk, image) == fetchOk /\ image # NoImage

TaskAlertReturns(id, fetchOk, image, loginOk, sendOk) ==
    /\ TaskAt(id).pc = "alert"
    /\ IF AlertTweets(fetchOk, image)
       THEN /\ retryTweetCalls' = [retryTweetCalls EXCEPT ![TaskAt(id).job.tokenId] = @ + 1]
            /\ tweetReveal(TaskAt(id).job.tokenId, image, loginOk, sendOk)
       ELSE UNCHANGED <<retryTweetCalls, twitterVars>>
    /\ cycles' = SetTask(id, "store", IF fetchOk THEN Fetched ELSE FetchFailed)
    /\ UNCHANGED <<store, liveVars, pendingReveals, enqueued, cyclesStarted, restVars>>

\* setHeroRevealed resolves: the job is done.
TaskStoreReturns(id) ==
    /\ TaskAt(id).pc = "store"
    /\ store' = setHeroRevealed(store, TaskAt(id).job.tokenId)
    /\ cycles' = Admit(SetTask(id, "done", NotFetched))
    /\ UNCHANGED <<liveVars, twitterVars, pendingReveals, enqueued, cyclesStarted,
                   retryTweetCalls, restVars>>

\* setHeroRevealed rejects (StoreError): the catch of the task.
TaskStoreFails(id) ==
    /\ TaskAt(id).pc = "store"
    /\ cycles' = TaskCaught(id)
    /\ UNCHANGED <<store, liveVars, twitterVars, pendingReveals, enqueued,
                   cyclesStarted, retryTweetCalls, restVars>>

\* Promise.all resolves: pendingReveals = nextPending.
RemoveAt(seq, k) == [i \in 1..(Len(seq) - 1) |-> IF i < k THEN seq[i] ELSE seq[i + 1]]

CycleEnds(k) ==
    /\ \A i \in 1..Len(cycles[k].tasks) : cycles[k].tasks[i].pc = "done"
    /\ pendingReveals' = cycles[k].nextPending
    /\ cycles' = RemoveAt(cycles, k)
    /\ UNCHANGED <<store, liveVars, twitterVars, enqueued, cyclesStarted, retryTweetCalls, restVars>>

\* --------------------------------------------------- subscription registry

\* The callbacks the monitors register: the async closure of
\* monitorStakingEvents and the closure of monitorEndgameEvents.
Callbacks == {"staking", "endgame"}
LoadCallers == {"startup", "reconnect"}

\* The state of wsClient.ts and of the monitors before main has started them.
WsIdle ==
    /\ activeSubscriptions = <<>>
    /\ connected = FALSE
    /\ opens = 0
    /\ restoreLog = <<>>
    /\ loads = [k \in LoadCallers |-> 0]
    /\ stakingSubs = 0
    /\ deathSubs = 0

\* activeSubscriptions.push(subscriptionFn)
registerSubscription(subs, subscriptionFn) == Append(subs, subscriptionFn)

\* An onOpen whose forEach has no try/catch: a throwing callback ends it.
RestoreUnguarded(threw) == threw

\* Whether an exception thrown by subscription() leaves the forEach of onOpen:
\* the try/catch around the call logs it and the loop goes on.
RestoreAborts(threw) == FALSE

\* activeSubscriptions.forEach(...) from position i on.  The staking closure is
\* async: it runs up to the `await Hero.find` of loadUnrevealedTokens and hands
\* back a promise, so it cannot throw into the loop.  The endgame closure calls
\* watchEvent at once, which sets up a subscription or throws.
RECURSIVE Restore(_, _, _, _)
Restore(subs, i, watchOk, acc) ==
    IF i > Len(subs) THEN acc
    ELSE LET threw == subs[i] = "endgame" /\ ~watchOk
             next == [log |-> Append(acc.log, subs[i]),
                      loads |-> acc.loads + (IF subs[i] = "staking" THEN 1 ELSE 0),
                      deathSubs |-> acc.deathSubs
                                      + (IF subs[i] = "endgame" /\ watchOk THEN 1 ELSE 0)]
         IN IF RestoreAborts(threw) THEN next ELSE Restore(subs, i + 1, watchOk, next)

\* onOpen: the socket opened (first connection or reconnection).
onOpen(watchOk) ==
    /\ ~connected
    /\ opens < MaxOpens
    /\ connected' = TRUE
    /\ opens' = opens + 1
    /\ LET done == Restore(activeSubscriptions, 1, watchOk,
                           [log |-> <<>>, loads |-> 0, deathSubs |-> 0]) IN
       /\ restoreLog' = done.log
       /\ loads' = [loads EXCEPT !["reconnect"] = @ + done.loads]
       /\ deathSubs' = deathSubs + done.deathSubs
    /\ UNCHANGED <<store, liveVars, twitterVars, queueVars, activeSubscriptions,
                   stakingSubs, detectVars, scriptVars, moreVars>>

\* onClose only logs; the transport reconnects by itself.
onClose ==
    /\ connected
    /\ connected' = FALSE
    /\ UNCHANGED <<store, liveVars, twitterVars, queueVars, activeSubscriptions, opens,
                   restoreLog, loads, stakingSubs, deathSubs, detectVars, scriptVars, moreVars>>

\* monitorEndgameEvents: setupDeathEventSubscription, then registerSubscription.
\* A watchEvent that throws leaves the function before the registration.
monitorEndgameEvents(watchOk) ==
    /\ Len(activeSubscriptions) + loads["startup"] < MaxSubscriptions
    /\ IF watchOk
       THEN /\ deathSubs' = deathSubs + 1
            /\ activeSubscriptions' = registerSubscription(activeSubscriptions, "endgame")
       ELSE UNCHANGED <<deathSubs, activeSubscriptions>>
    /\ UNCHANGED <<store, liveVars, twitterVars, queueVars, connected, opens,
                   restoreLog, loads, stakingSubs, detectVars, scriptVars, moreVars>>

\* monitorStakingEvents up to the `await Hero.find` of loadUnrevealedTokens.
monitorStakingEvents ==
    /\ Len(activeSubscriptions) + loads["startup"] < MaxSubscriptions
    /\ loads' = [loads EXCEPT !["startup"] = @ + 1]
    /\ UNCHANGED <<store, liveVars, twitterVars, queueVars, activeSubscriptions,
                   connected, opens, restoreLog, stakingSubs, deathSubs, detectVars, scriptVars, moreVars>>

\* What follows `await loadUnrevealedTokens()` in monitorStakingEvents and in its
\* reconnect closure: setupEventSubscription, and at startup the registration.
\* A watchEvent that throws ends either of them there.
AfterLoad(caller, watchOk) ==
    /\ loads[caller] > 0
    /\ loads' = [loads EXCEPT ![caller] = @ - 1]
    /\ stakingSubs' = IF watchOk THEN stakingSubs + 1 ELSE stakingSubs
    /\ activeSubscriptions' =
          IF watchOk /\ caller = "startup"
          THEN registerSubscription(activeSubscriptions, "staking")
          ELSE activeSubscriptions

\* Hero.find({ isRevealed: false }) resolves: every token id of the result is
\* added to unrevealedTokensSet; nothing is removed from it.  The query is
\* read at the moment it resolves.
loadUnrevealedTokens(tokensSet, db) == tokensSet \cup FindUnrevealed(db)

LoadReturns(caller, watchOk) ==
    /\ AfterLoad(caller, watchOk)
    /\ unrevealedTokensSet' = loadUnrevealedTokens(unrevealedTokensSet, store)
    /\ UNCHANGED <<store, timers, liveChecks, stakedDelivered, liveTweetCalls,
                   twitterVars, queueVars, connected, opens, restoreLog, deathSubs,
                   detectVars, scriptVars, moreVars>>

\* A loadUnrevealedTokens without its try/catch: the rejection of Hero.find
\* ends the caller before setupEventSubscription.
LoadRejects(caller, watchOk) ==
    /\ loads[caller] > 0
    /\ loads' = [loads EXCEPT ![caller] = @ - 1]
    /\ UNCHANGED <<store, liveVars, twitterVars, queueVars, connected, opens,
                   restoreLog, deathSubs, detectVars, scriptVars, moreVars,
                   stakingSubs, activeSubscriptions>>

\* Hero.find rejects: the catch of loadUnrevealedTokens logs, the set is kept.
LoadFails(caller, watchOk) ==
    /\ AfterLoad(caller, watchOk)
    /\ UNCHANGED <<store, liveVars, twitterVars, queueVars, connected, opens,
                   restoreLog, deathSubs, detectVars, scriptVars, moreVars>>

\* ------------------------------------------------------ detectAndStoreReveal

\* image.includes("unrevealed"), on the segments of the image reference.
IncludesUnrevealed(image) == \E i \in 1..Len(image) : image[i] = "unrevealed"

DetectIdle ==
    /\ detects = EmptyBag
    /\ detectCalls = 0

\* detectAndStoreReveal up to `await axios.get`.
detectAndStoreReveal(tokenId) ==
    /\ detectCalls < MaxDetects
    /\ detectCalls' = detectCalls + 1
    /\ detects' = detects (+) SetToBag({[tokenId |-> tokenId, pc |-> "fetch"]})
    /\ UNCHANGED <<store, liveVars, twitterVars, queueVars, wsVars, scriptVars, moreVars>>

\* axios.get resolves.  An absent image makes .includes throw into the catch
\* (return false); an image that includes "unrevealed" returns false; any
\* other image goes on to the upsert.
DetectFetchReturns(c, image) ==
    /\ c.pc = "fetch"
    /\ detects' = IF image = NoImage \/ IncludesUnrevealed(image)
                  THEN detects (-) SetToBag({c})
                  ELSE (detects (-) SetToBag({c})) (+) SetToBag({[c EXCEPT !.pc = "upsert"]})
    /\ UNCHANGED <<store, liveVars, twitterVars, queueVars, wsVars, detectCalls, scriptVars, moreVars>>

\* axios.get rejects: the catch logs and returns false.
DetectFetchFails(c) ==
    /\ c.pc = "fetch"
    /\ detects' = detects (-) SetToBag({c})
    /\ UNCHANGED <<store, liveVars, twitterVars, queueVars, wsVars, detectCalls, scriptVars, moreVars>>

\* Hero.findOneAndUpdate({tokenId}, {..., isRevealed: true}, {upsert: true}) resolves.
DetectUpsertReturns(c) ==
    /\ c.pc = "upsert"
    /\ store' = [store EXCEPT ![c.tokenId] = "revealed"]
    /\ detects' = detects (-) SetToBag({c})
    /\ UNCHANGED <<liveVars, twitterVars, queueVars, wsVars, detectCalls, scriptVars, moreVars>>

\* The upsert rejects: the catch logs and returns false.
DetectUpsertFails(c) ==
    /\ c.pc = "upsert"
    /\ detects' = detects (-) SetToBag({c})
    /\ UNCHANGED <<store, liveVars, twitterVars, queueVars, wsVars, detectCalls, scriptVars, moreVars>>

\* ------------------------------------------------------- bulk reconciliation

MAX_RETRIES_PER_TOKEN == 5
MAX_FULL_LOOP == 5
START_TOKEN_ID == 1
END_TOKEN_ID == 10000

NoTasks == [t \in {} |-> 0]

\* The script has not been started.
ScriptIdle ==
    /\ scriptPc = "idle"
    /\ dbUnrevealedIds = {}
    /\ scriptTasks = NoTasks
    /\ failedTokens = <<>>
    /\ fullLoopCount = 0

\* One task of processTokenRange: fetchAndStoreMetadata(tokenId, attempt) at
\* `await axios.get` ("fetch") or at `await Hero.findOneAndUpdate` ("upsert",
\* with the isRevealed it computed), or ended ("ok", "failed").
ScriptTask(pc, attempt, isRevealed) ==
    [pc |-> pc, attempt |-> attempt, isRevealed |-> isRevealed]

\* processTokenRange(tokenIds): the limit of 50 lets every task start at once.
processTokenRange(tokenIds) == [t \in tokenIds |-> ScriptTask("fetch", 1, FALSE)]

\* initAllMetadata up to the first query of getTokensToUpdate.
initAllMetadata ==
    /\ scriptPc = "idle"
    /\ scriptPc' = "find"
    /\ UNCHANGED <<store, liveVars, twitterVars, queueVars, wsVars, detectVars,
                   dbUnrevealedIds, scriptTasks, failedTokens, fullLoopCount, moreVars>>

\* Hero.find({ isRevealed: false }) resolves; Hero.distinct is awaited.
ScriptFindReturns ==
    /\ scriptPc = "find"
    /\ scriptPc' = "distinct"
    /\ dbUnrevealedIds' = FindUnrevealed(store)
    /\ UNCHANGED <<store, liveVars, twitterVars, queueVars, wsVars, detectVars,
                   scriptTasks, failedTokens, fullLoopCount, moreVars>>

\* getTokensToUpdate: the unrevealed ids of the first query and the ids of
\* START_TOKEN_ID..END_TOKEN_ID that the second query did not return.
getTokensToUpdate(unrevealedIds, db) ==
    unrevealedIds \cup
        {t \in Tokens : START_TOKEN_ID <= t /\ t <= END_TOKEN_ID /\ db[t] = "none"}

\* Hero.distinct("tokenId") resolves: nothing to update -> return; otherwise
\* the first full loop starts.
ScriptDistinctReturns ==
    /\ scriptPc = "distinct"
    /\ LET pendingTokens == getTokensToUpdate(dbUnrevealedIds, store) IN
       IF pendingTokens = {}
       THEN /\ scriptPc' = "exited"
            /\ UNCHANGED <<scriptTasks, fullLoopCount>>
       ELSE /\ scriptPc' = "loop"
            /\ fullLoopCount' = 1
            /\ scriptTasks' = processTokenRange(pendingTokens)
    /\ UNCHANGED <<store, liveVars, twitterVars, queueVars, wsVars, detectVars,
                   dbUnrevealedIds, failedTokens, moreVars>>

\* A query of getTokensToUpdate rejects: the entry point logs and exits.
ScriptQueryFails ==
    /\ scriptPc \in {"find", "distinct"}
    /\ scriptPc' = "exited"
    /\ UNCHANGED <<store, liveVars, twitterVars, queueVars, wsVars, detectVars,
                   dbUnrevealedIds, scriptTasks, failedTokens, fullLoopCount, moreVars>>

\* The catch of fetchAndStoreMetadata: retry below MAX_RETRIES_PER_TOKEN, else
\* throw into the catch of the task, which pushes the token on failedTokens.
ScriptCaught(t) ==
    IF scriptTasks[t].attempt < MAX_RETRIES_PER_TOKEN
    THEN /\ scriptTasks' = [scriptTasks EXCEPT ![t] = ScriptTask("fetch", @.attempt + 1, FALSE)]
         /\ UNCHANGED failedTokens
    ELSE /\ scriptTasks' = [scriptTasks EXCEPT ![t] = ScriptTask("failed", @.attempt, FALSE)]
         /\ failedTokens' = Append(failedTokens, t)

\* axios.get resolves: isRevealed = !metadata.image.includes("unrevealed"); an
\* absent image makes .includes throw into the catch.
ScriptFetchReturns(t, image) ==
    /\ scriptPc = "loop"
    /\ t \in DOMAIN scriptTasks
    /\ scriptTasks[t].pc = "fetch"
    /\ IF image = NoImage
       THEN ScriptCaught(t)
       ELSE /\ scriptTasks' = [scriptTasks EXCEPT ![t] =
                   ScriptTask("upsert", @.attempt, ~IncludesUnrevealed(image))]
            /\ UNCHANGED failedTokens
    /\ UNCHANGED <<store, liveVars, twitterVars, queueVars, wsVars, detectVars,
                   scriptPc, dbUnrevealedIds, fullLoopCount, moreVars>>

\* axios.get rejects.
ScriptFetchFails(t) ==
    /\ scriptPc = "loop"
    /\ t \in DOMAIN scriptTasks
    /\ scriptTasks[t].pc = "fetch"
    /\ ScriptCaught(t)
    /\ UNCHANGED <<store, liveVars, twitterVars, queueVars, wsVars, detectVars,
                   scriptPc, dbUnrevealedIds, fullLoopCount, moreVars>>

\* Hero.findOneAndUpdate({tokenId}, {..., isRevealed}, {upsert: true}): the
\* record gets the isRevealed computed from the fetched image.
fetchAndStoreMetadata(db, tokenId, isRevealed) ==
    [db EXCEPT ![tokenId] = IF isRevealed THEN "revealed" ELSE "unrevealed"]

ScriptUpsertReturns(t) ==
    /\ scriptPc = "loop"
    /\ t \in DOMAIN scriptTasks
    /\ scriptTasks[t].pc = "upsert"
    /\ store' = fetchAndStoreMetadata(store, t, scriptTasks[t].isRevealed)
    /\ scriptTasks' = [scriptTasks EXCEPT ![t] = ScriptTask("ok", @.attempt, FALSE)]
    /\ UNCHANGED <<liveVars, twitterVars, queueVars, wsVars, detectVars,
                   scriptPc, dbUnrevealedIds, failedTokens, fullLoopCount, moreVars>>

\* The upsert rejects.
ScriptUpsertFails(t) ==
    /\ scriptPc = "loop"
    /\ t \in DOMAIN scriptTasks
    /\ scriptTasks[t].pc = "upsert"
    /\ ScriptCaught(t)
    /\ UNCHANGED <<store, liveVars, twitterVars, queueVars, wsVars, detectVars,
                   scriptPc, dbUnrevealedIds, fullLoopCount, moreVars>>

\* An initAllMetadata whose while tests fullLoopCount <= MAX_FULL_LOOP.
ScriptLoopEndsLate ==
    /\ scriptPc = "loop"
    /\ \A t \in DOMAIN scriptTasks : scriptTasks[t].pc \in {"ok", "failed"}
    /\ IF failedTokens # <<>> /\ fullLoopCount <= MAX_FULL_LOOP
       THEN /\ fullLoopCount' = fullLoopCount + 1
            /\ scriptTasks' =
                  processTokenRange({failedTokens[i] : i \in 1..Len(failedTokens)})
            /\ failedTokens' = <<>>
            /\ UNCHANGED scriptPc
       ELSE /\ scriptPc' = "exited"
            /\ scriptTasks' = NoTasks
            /\ failedTokens' = <<>>
            /\ UNCHANGED fullLoopCount
    /\ UNCHANGED <<store, liveVars, twitterVars, queueVars, wsVars, detectVars,
                   dbUnrevealedIds, moreVars>>

\* Promise.all resolves in processTokenRange: no failure -> return; otherwise
\* the failed tokens are the next loop's, up to MAX_FULL_LOOP loops.
ScriptLoopEnds ==
    /\ scriptPc = "loop"
    /\ \A t \in DOMAIN scriptTasks : scriptTasks[t].pc \in {"ok", "failed"}
    /\ IF failedTokens # <<>> /\ fullLoopCount < MAX_FULL_LOOP
       THEN /\ fullLoopCount' = fullLoopCount + 1
            /\ scriptTasks' =
                  processTokenRange({failedTokens[i] : i \in 1..Len(failedTokens)})
            /\ failedTokens' = <<>>
            /\ UNCHANGED scriptPc
       ELSE /\ scriptPc' = "exited"
            /\ scriptTasks' = NoTasks
            /\ failedTokens' = <<>>
            /\ UNCHANGED fullLoopCount
    /\ UNCHANGED <<store, liveVars, twitterVars, queueVars, wsVars, detectVars,
                   dbUnrevealedIds, moreVars>>

\* ----------------------------------------- wrapped subscriptions, Death path

EventIdle ==
    /\ deathRuns = <<>>
    /\ wrapperCalls = 0
    /\ onErrorCalls = 0
    /\ caught = 0
    /\ escaped = 0

\* A safeOnLogs whose call of onError is not wrapped.
unsafeOnLogs(outcome, hasOnError, onErrorThrows) ==
    [onErrorCalls |-> IF outcome # "returns" /\ hasOnError THEN 1 ELSE 0,
     caught |-> IF outcome # "returns" THEN 1 ELSE 0,
     escapes |-> outcome # "returns" /\ hasOnError /\ onErrorThrows]

\* safeOnLogs: `await onLogs(logs)` inside try; the catch logs and calls
\* onError, when the caller gave one, inside a try/catch of its own.
safeOnLogs(outcome, hasOnError, onErrorThrows) ==
    [onErrorCalls |-> IF outcome # "returns" /\ hasOnError THEN 1 ELSE 0,
     caught |-> (IF outcome # "returns" THEN 1 ELSE 0)
                  + (IF outcome # "returns" /\ hasOnError /\ onErrorThrows THEN 1 ELSE 0),
     escapes |-> FALSE]

\* safeOnError: logs, calls onError, when the caller gave one, inside
\* try/catch, and does not rethrow.
safeOnError(hasOnError, onErrorThrows) ==
    [onErrorCalls |-> IF hasOnError THEN 1 ELSE 0,
     caught |-> IF hasOnError /\ onErrorThrows THEN 1 ELSE 0,
     escapes |-> FALSE]

Wrapped(result) ==
    /\ wrapperCalls < MaxHandlerCalls
    /\ wrapperCalls' = wrapperCalls + 1
    /\ onErrorCalls' = onErrorCalls + result.onErrorCalls
    /\ caught' = caught + result.caught
    /\ escaped' = IF result.escapes THEN escaped + 1 ELSE escaped
    /\ UNCHANGED <<store, liveVars, twitterVars, queueVars, wsVars, detectVars,
                   scriptVars, deathRuns,
                   mainVars,
                   backoffVars, graceWaits, syncVars, notifierCalls>>

\* viem hands a batch to the onLogs of a subscription made by
\* watchEventWithErrorHandling, for a caller's onLogs that ends as `outcome`:
\* "returns", "throws" or "rejects".
WatchLogs(outcome, hasOnError, onErrorThrows) ==
    Wrapped(safeOnLogs(outcome, hasOnError, onErrorThrows))

\* viem reports a transport error to the onError of such a subscription.
WatchError(hasOnError, onErrorThrows) ==
    Wrapped(safeOnError(hasOnError, onErrorThrows))

\* One log of a Death batch.  decoded: whether log.args is there to destructure.
\* pc: "waiting" (the for loop has not reached it), "fetch" (handleDeathLog
\* awaits axios.get), "tweet" (awaits tweetDeath), "done", "failed" (a catch
\* logged).  fetches and tweets count the axios.get and tweetDeath calls.
DeathLog(id, decoded) ==
    [id |-> id, decoded |-> decoded, pc |-> "waiting", fetches |-> 0, tweets |-> 0]

\* The for loop of the Death onLogs from log i on: `await handleDeathLog(id)`
\* holds the loop until that log is done; a log whose args cannot be
\* destructured throws into the catch of the loop body and the loop goes on.
RECURSIVE DeathLoop(_, _)
DeathLoop(run, i) ==
    IF i > Len(run) THEN run
    ELSE IF ~run[i].decoded THEN DeathLoop([run EXCEPT ![i].pc = "failed"], i + 1)
    ELSE [run EXCEPT ![i].pc = "fetch", ![i].fetches = @ + 1]

\* The Death onLogs is called with a batch, through safeOnLogs; it runs up to
\* the first `await axios.get`.
DeathOnLogs(logs) ==
    /\ deathSubs > 0
    /\ Len(deathRuns) < MaxBatches
    /\ deathRuns' = Append(deathRuns, DeathLoop(logs, 1))
    /\ UNCHANGED <<store, liveVars, twitterVars, queueVars, wsVars, detectVars,
                   scriptVars, wrapperCalls, onErrorCalls, caught, escaped,
                   mainVars,
                   backoffVars, graceWaits, syncVars, notifierCalls>>

\* A handleDeathLog that fetches again when axios.get rejects.
DeathFetchRetries(r, i) ==
    /\ deathRuns[r][i].pc = "fetch"
    /\ deathRuns' = [deathRuns EXCEPT ![r][i].fetches = @ + 1]
    /\ UNCHANGED <<store, liveVars, twitterVars, queueVars, wsVars, detectVars,
                   scriptVars, wrapperCalls, onErrorCalls, caught, escaped,
                   mainVars,
                   backoffVars, graceWaits, syncVars, notifierCalls>>

\* axios.get rejects: the catch of handleDeathLog logs, and the loop goes on.
DeathFetchFails(r, i) ==
    /\ deathRuns[r][i].pc = "fetch"
    /\ deathRuns' = [deathRuns EXCEPT
          ![r] = DeathLoop([deathRuns[r] EXCEPT ![i].pc = "failed"], i + 1)]
    /\ UNCHANGED <<store, liveVars, twitterVars, queueVars, wsVars, detectVars,
                   scriptVars, wrapperCalls, onErrorCalls, caught, escaped,
                   mainVars,
                   backoffVars, graceWaits, syncVars, notifierCalls>>

\* axios.get resolves.  Metadata whose attributes has no find throws into the
\* same catch; otherwise tweetDeath is called and awaited.
DeathFetchReturns(r, i, wellFormed) ==
    /\ deathRuns[r][i].pc = "fetch"
    /\ deathRuns' = [deathRuns EXCEPT ![r] =
          IF wellFormed
          THEN [deathRuns[r] EXCEPT ![i].pc = "tweet", ![i].tweets = @ + 1]
          ELSE DeathLoop([deathRuns[r] EXCEPT ![i].pc = "failed"], i + 1)]
    /\ UNCHANGED <<store, liveVars, twitterVars, queueVars, wsVars, detectVars,
                   scriptVars, wrapperCalls, onErrorCalls, caught, escaped,
                   mainVars,
                   backoffVars, graceWaits, syncVars, notifierCalls>>

\* tweetDeath returns (it never throws): it has logged in if it had to and
\* could.  The loop goes on.
DeathTweetReturns(r, i, loginOk) ==
    /\ deathRuns[r][i].pc = "tweet"
    /\ isInitialized' = LoggedInAfter(isInitialized, loginOk)
    /\ deathRuns' = [deathRuns EXCEPT
          ![r] = DeathLoop([deathRuns[r] EXCEPT ![i].pc = "done"], i + 1)]
    /\ UNCHANGED <<store, liveVars, tweetPosts, queueVars, wsVars, detectVars,
                   scriptVars, wrapperCalls, onErrorCalls, caught, escaped,
                   mainVars,
                   backoffVars, graceWaits, syncVars, notifierCalls>>

\* ------------------------------------------------------- reconnect backoff

baseDelayMs == 1000
maxDelayMs == 30000

\* Before the transport has tried to reconnect.
BackoffIdle ==
    /\ attemptCount = 0
    /\ retryDelay = 0

\* A delay that grows by baseDelayMs with each attempt.
linearBackoffDelay(n) ==
    IF baseDelayMs * n < maxDelayMs THEN baseDelayMs * n ELSE maxDelayMs

\* exponentialBackoffDelay: Math.min(baseDelayMs * 2 ** (attemptCount - 1), maxDelayMs)
exponentialBackoffDelay(n) ==
    IF baseDelayMs * 2 ^ (n - 1) < maxDelayMs THEN baseDelayMs * 2 ^ (n - 1) ELSE maxDelayMs

\* The socket is closed and the transport tries again: onReconnect logs the
\* attempt and retryDelay gives the wait.  maxRetries is Infinity: the attempt
\* count is no guard.
onReconnect ==
    /\ ~connected
    /\ opens > 0
    /\ attemptCount < MaxAttempts
    /\ attemptCount' = attemptCount + 1
    /\ retryDelay' = exponentialBackoffDelay(attemptCount + 1)
    /\ UNCHANGED <<store, liveVars, twitterVars, queueVars, wsVars, detectVars,
                   scriptVars, eventVars, mainVars, graceWaits, syncVars, notifierCalls>>

\* ------------------------------------------------------------------- main

\* Before main() is called.
MainIdle ==
    /\ mainPc = "idle"
    /\ mongoRetryCount = 0
    /\ mongoConnected = FALSE
    /\ exitCode = <<>>

\* main up to its first await: setupGracefulShutdown, then the first pass of
\* the connection loop, mongoRetryCount++ and `await connectMongoDB(MONGO_URI)`.
main ==
    /\ mainPc = "idle"
    /\ mainPc' = "connect"
    /\ mongoRetryCount' = mongoRetryCount + 1
    /\ UNCHANGED <<store, liveVars, twitterVars, queueVars, wsVars, detectVars,
                   scriptVars, eventVars, mongoConnected, exitCode,
                   backoffVars, graceWaits, syncVars, notifierCalls>>

\* mongoose.connect resolves: connectMongoDB returns, the loop of main ends and
\* main awaits initTwitterClient.
ConnectReturns ==
    /\ mainPc = "connect"
    /\ mongoConnected' = TRUE
    /\ mainPc' = "twitter"
    /\ UNCHANGED <<store, liveVars, twitterVars, queueVars, wsVars, detectVars,
                   scriptVars, eventVars, mongoRetryCount, exitCode,
                   backoffVars, graceWaits, syncVars, notifierCalls>>

\* mongoose.connect rejects: the catch of connectMongoDB logs and calls
\* process.exit(1).  Nothing is thrown to the catch of main's loop.
ConnectFails ==
    /\ mainPc = "connect"
    /\ exitCode' = <<1>>
    /\ mainPc' = "exited"
    /\ UNCHANGED <<store, liveVars, twitterVars, queueVars, wsVars, detectVars,
                   scriptVars, eventVars, mongoRetryCount, mongoConnected,
                   backoffVars, graceWaits, syncVars, notifierCalls>>

\* main without the try around initTwitterClient: a failed login rejects main.
TwitterRejects(loginOk) ==
    /\ mainPc = "twitter"
    /\ isInitialized' = LoggedInAfter(isInitialized, loginOk)
    /\ loads' = [loads EXCEPT !["startup"] = IF loginOk THEN @ + 1 ELSE @]
    /\ mainPc' = IF loginOk THEN "staking" ELSE "rejected"
    /\ UNCHANGED <<store, liveVars, tweetPosts, queueVars, activeSubscriptions,
                   connected, opens, restoreLog, stakingSubs, deathSubs, detectVars,
                   scriptVars, eventVars, mongoRetryCount, mongoConnected, exitCode,
                   backoffVars, graceWaits, syncVars, notifierCalls>>

\* initTwitterClient returns or throws (the catch of main logs): main calls
\* monitorStakingEvents, which runs up to the `await Hero.find` of
\* loadUnrevealedTokens.
TwitterReturns(loginOk) ==
    /\ mainPc = "twitter"
    /\ isInitialized' = LoggedInAfter(isInitialized, loginOk)
    /\ loads' = [loads EXCEPT !["startup"] = @ + 1]
    /\ mainPc' = "staking"
    /\ UNCHANGED <<store, liveVars, tweetPosts, queueVars, activeSubscriptions,
                   connected, opens, restoreLog, stakingSubs, deathSubs, detectVars,
                   scriptVars, eventVars, mongoRetryCount, mongoConnected, exitCode,
                   backoffVars, graceWaits, syncVars, notifierCalls>>

\* monitorStakingEvents has returned or thrown (the catch of main logs): main
\* goes through monitorEndgameEvents, whose watchEvent sets up a subscription
\* or throws before the registration, then through startQueueProcessing, whose
\* first processQueueOnce finds the queue empty, and sets the heartbeat.
StakingReturns(watchOk) ==
    /\ mainPc = "staking"
    /\ loads["startup"] = 0
    /\ mainPc' = "running"
    /\ IF watchOk
       THEN /\ deathSubs' = deathSubs + 1
            /\ activeSubscriptions' = registerSubscription(activeSubscriptions, "endgame")
       ELSE UNCHANGED <<deathSubs, activeSubscriptions>>
    /\ UNCHANGED <<store, liveVars, twitterVars, queueVars, connected, opens,
                   restoreLog, loads, stakingSubs, detectVars, scriptVars, eventVars,
                   mongoRetryCount, mongoConnected, exitCode,
                   backoffVars, graceWaits, syncVars, notifierCalls>>

\* ------------------------------------------------------- graceful shutdown

\* The handler setupGracefulShutdown registered for SIGINT, SIGTERM and
\* SIGUSR2, up to its `await new Promise(resolve => setTimeout(resolve, 2000))`.
\* The three handlers have the same body; nothing else is touched.
onSignal(signal) ==
    /\ mainPc # "idle"
    /\ exitCode = <<>>
    /\ graceWaits < MaxSignals
    /\ graceWaits' = graceWaits + 1
    /\ UNCHANGED <<store, liveVars, twitterVars, queueVars, wsVars, detectVars,
                   scriptVars, eventVars, mainVars, backoffVars, syncVars, notifierCalls>>

\* The 2000 ms timer of the oldest waiting handler fires: the handler logs and
\* calls process.exit(0).
GraceElapsed ==
    /\ exitCode = <<>>
    /\ graceWaits > 0
    /\ graceWaits' = graceWaits - 1
    /\ exitCode' = <<0>>
    /\ mainPc' = "exited"
    /\ UNCHANGED <<store, liveVars, twitterVars, queueVars, wsVars, detectVars,
                   scriptVars, eventVars, mongoRetryCount, mongoConnected,
                   backoffVars, syncVars, notifierCalls>>

\* ------------------------------------- historical monitor (Redis version)

\* config.ts: the defaults of the four block parameters.
FALLBACK_START_BLOCK == 2273309
REORG_SAFETY == 6
BLOCK_BATCH_SIZE == 5000
BLOCK_WRITE_FREQUENCY == 10

\* Number.prototype.toString as setLastProcessedBlock (part_003, lines 28-30)
\* uses it: the decimal
\* digits of a non-negative block number, most significant first.
RECURSIVE toString(_)
toString(n) == IF n < 10 THEN <<n>> ELSE Append(toString(n \div 10), n % 10)

\* parseInt(val, 10) of getLastProcessedBlock (part_003, line 22) on a
\* non-empty string of decimal digits.
RECURSIVE parseInt(_)
parseInt(val) ==
    IF Len(val) = 1 THEN val[1]
    ELSE 10 * parseInt(SubSeq(val, 1, Len(val) - 1)) + val[Len(val)]

\* getLastProcessedBlock on the Redis value `val`: null (here <<>>) when the
\* key is unset or empty, else <<the parsed number>>.
getLastProcessedBlock(val) == IF val = <<>> THEN <<>> ELSE <<parseInt(val)>>

\* The start block monitorStakingEvents (part_003, lines 103-110) computes
\* from what getLastProcessedBlock returned.
startBlockUnfloored(lastProcessedBlock) ==
    (IF lastProcessedBlock = <<>> THEN FALLBACK_START_BLOCK
     ELSE lastProcessedBlock[1]) - REORG_SAFETY

startBlock(lastProcessedBlock) ==
    LET last == IF lastProcessedBlock = <<>> THEN FALLBACK_START_BLOCK
                ELSE lastProcessedBlock[1]
    IN  IF last - REORG_SAFETY > 0 THEN last - REORG_SAFETY ELSE 0

\* `end` of the batch that starts at `start`.
BatchEndTooFar(start, latest) ==
    IF start + BLOCK_BATCH_SIZE < latest THEN start + BLOCK_BATCH_SIZE ELSE latest

BatchEnd(start, latest) ==
    IF start + BLOCK_BATCH_SIZE - 1 < latest THEN start + BLOCK_BATCH_SIZE - 1
    ELSE latest

SyncIdle ==
    /\ syncPc = "idle"
    /\ lastBlockHandled = <<>>
    /\ fromBlock = 0
    /\ latestBlock = <<>>
    /\ batches = <<>>
    /\ logsLeft = 0
    /\ revealedHeroes = {}
    /\ syncFailed = FALSE

\* What the Mongo-side components leave alone is everything but syncVars.
notSyncVars == <<store, liveVars, twitterVars, queueVars, wsVars, detectVars,
                 scriptVars, eventVars, mainVars, backoffVars, graceWaits,
                 notifierCalls>>

\* monitorStakingEvents of the Redis version (part_003, lines 99-103), up to
\* its first await.
monitorHistorical ==
    /\ syncPc = "idle"
    /\ syncPc' = "getLast"
    /\ UNCHANGED <<lastBlockHandled, fromBlock, latestBlock, batches, logsLeft,
                   revealedHeroes, syncFailed, notSyncVars>>

\* redisClient.get resolved: the start block is computed and
\* syncHistoricalEvents runs up to `await httpClient.getBlockNumber()`.
GetLastReturns ==
    /\ syncPc = "getLast"
    /\ fromBlock' = startBlock(getLastProcessedBlock(lastBlockHandled))
    /\ syncPc' = "head"
    /\ UNCHANGED <<lastBlockHandled, latestBlock, batches, logsLeft,
                   revealedHeroes, syncFailed, notSyncVars>>

\* redisClient.get rejected (part_003, lines 20 and 103):
\* monitorStakingEvents rejects before any sync and before watchNewEvents.
GetLastFails ==
    /\ syncPc = "getLast"
    /\ syncPc' = "rejected"
    /\ UNCHANGED <<lastBlockHandled, fromBlock, latestBlock, batches, logsLeft,
                   revealedHeroes, syncFailed, notSyncVars>>

\* The top of `while (start <= latestBlock)` with the loop variable at
\* `start`: either the next batch is queried, or the loop and the function
\* end and monitorStakingEvents calls watchNewEvents.
LoopFrom(start, latest) ==
    IF start <= latest
    THEN /\ batches' = Append(batches, [start |-> start,
                                        end |-> BatchEnd(start, latest)])
         /\ syncPc' = "query"
    ELSE /\ batches' = batches
         /\ syncPc' = "watching"

\* getBlockNumber resolved with `latest`.
HeadReturns(latest) ==
    /\ syncPc = "head"
    /\ latestBlock' = <<latest>>
    /\ LoopFrom(fromBlock, latest)
    /\ UNCHANGED <<lastBlockHandled, fromBlock, logsLeft, revealedHeroes,
                   syncFailed, notSyncVars>>

\* The batch whose logs have all been handled (part_003, lines 146-151): the
\* write condition, then `start = end + 1`.
AfterBatch ==
    LET end == batches[Len(batches)].end
    IN  IF end % BLOCK_WRITE_FREQUENCY = 0 \/ end = latestBlock[1]
        THEN syncPc' = "write" /\ batches' = batches
        ELSE LoopFrom(end + 1, latestBlock[1])

\* createEventFilter and getFilterLogs resolved for the current batch with
\* `n` logs.
QueryReturns(n) ==
    /\ syncPc = "query"
    /\ logsLeft' = n
    /\ IF n = 0 THEN AfterBatch ELSE syncPc' = "handle" /\ batches' = batches
    /\ UNCHANGED <<lastBlockHandled, fromBlock, latestBlock, revealedHeroes,
                   syncFailed, notSyncVars>>

\* `await handleStakingLog(log)` returned for the next log of the batch, a
\* Staked event of `tokenId`.  The handler adds the hero to the Redis set
\* unless it was there or a step of it threw (`ok` false); it never throws.
HistoricalLogHandled(tokenId, ok) ==
    /\ syncPc = "handle"
    /\ logsLeft > 0
    /\ logsLeft' = logsLeft - 1
    /\ revealedHeroes' = IF ok THEN revealedHeroes \cup {tokenId}
                         ELSE revealedHeroes
    /\ IF logsLeft = 1 THEN AfterBatch ELSE UNCHANGED <<syncPc, batches>>
    /\ UNCHANGED <<lastBlockHandled, fromBlock, latestBlock, syncFailed,
                   notSyncVars>>

\* setLastProcessedBlock(end) resolved.
WriteReturns ==
    /\ syncPc = "write"
    /\ lastBlockHandled' = toString(batches[Len(batches)].end)
    /\ LoopFrom(batches[Len(batches)].end + 1, latestBlock[1])
    /\ UNCHANGED <<fromBlock, latestBlock, logsLeft, revealedHeroes,
                   syncFailed, notSyncVars>>

\* An awaited call inside the try of syncHistoricalEvents rejected
\* (getBlockNumber, createEventFilter, getFilterLogs or
\* setLastProcessedBlock): the catch logs, the function returns and
\* monitorStakingEvents calls watchNewEvents.
SyncFails ==
    /\ syncPc \in {"head", "query", "write"}
    /\ syncFailed' = TRUE
    /\ syncPc' = "watching"
    /\ UNCHANGED <<lastBlockHandled, fromBlock, latestBlock, batches, logsLeft,
                   revealedHeroes, notSyncVars>>

MongoSideIdle ==
    /\ WsIdle /\ DetectIdle /\ ScriptIdle /\ EventIdle /\ MainIdle /\ BackoffIdle
    /\ graceWaits = 0
    /\ notifierCalls = <<>>

RestIdle == MongoSideIdle /\ SyncIdle

\* ---------------------------------------------------------- specifications

\* After monitorStakingEvents: the Working Set holds the unrevealed records.
InitLive ==
    /\ store \in [Tokens -> StoreValues]
    /\ unrevealedTokensSet = FindUnrevealed(store)
    /\ timers = <<>>
    /\ liveChecks = EmptyBag
    /\ stakedDelivered = [t \in Tokens |-> 0]
    /\ liveTweetCalls = [t \in Tokens |-> 0]
    /\ tweetPosts = [t \in Tokens |-> 0]
    /\ isInitialized \in BOOLEAN
    /\ QueueIdle
    /\ RestIdle

NextLive ==
    \/ \E o \in Owners, t \in Tokens : handleStakingLog(o, t)
    \/ TimerFires
    \/ \E c \in BagToSet(liveChecks) : LiveFetchFails(c)
    \/ \E c \in BagToSet(liveChecks), i \in Images, l \in Levels : LiveFetchReturns(c, i, l)
    \/ \E c \in BagToSet(liveChecks), lo \in BOOLEAN, so \in BOOLEAN : LiveTweetReturns(c, lo, so)
    \/ \E c \in BagToSet(liveChecks) : LiveStoreReturns(c)
    \/ \E c \in BagToSet(liveChecks) : LiveStoreFails(c)

SpecLive == InitLive /\ [][NextLive]_vars

\* The claim's environment for C1: the metadata source answers every check with a
\* resolved image and no level, the State Store does not fail, and every token
\* starts with an unrevealed record, hence watched.  Twitter may fail inside
\* tweetReveal, which never throws.
InitWatched ==
    /\ store = [t \in Tokens |-> "unrevealed"]
    /\ unrevealedTokensSet = FindUnrevealed(store)
    /\ timers = <<>>
    /\ liveChecks = EmptyBag
    /\ stakedDelivered = [t \in Tokens |-> 0]
    /\ liveTweetCalls = [t \in Tokens |-> 0]
    /\ tweetPosts = [t \in Tokens |-> 0]
    /\ isInitialized \in BOOLEAN
    /\ QueueIdle
    /\ RestIdle

NextResolved ==
    \/ \E t \in Tokens : handleStakingLog("0xAA", t)
    \/ TimerFires
    \/ \E c \in BagToSet(liveChecks) : LiveFetchReturns(c, HeroImage, NoLevel)
    \/ \E c \in BagToSet(liveChecks), lo \in BOOLEAN, so \in BOOLEAN : LiveTweetReturns(c, lo, so)
    \/ \E c \in BagToSet(liveChecks) : LiveStoreReturns(c)

SpecResolved == InitWatched /\ [][NextResolved]_vars

\* The environment of C11: as SpecResolved, but a token may have no record in
\* the State Store when the staking monitor loads the Working Set.
InitUnknown ==
    /\ store \in [Tokens -> {"none", "unrevealed"}]
    /\ unrevealedTokensSet = loadUnrevealedTokens({}, store)
    /\ timers = <<>>
    /\ liveChecks = EmptyBag
    /\ stakedDelivered = [t \in Tokens |-> 0]
    /\ liveTweetCalls = [t \in Tokens |-> 0]
    /\ tweetPosts = [t \in Tokens |-> 0]
    /\ isInitialized \in BOOLEAN
    /\ QueueIdle
    /\ RestIdle

SpecUnknown == InitUnknown /\ [][NextResolved]_vars

\* The environment of C4's particular case: a Staked log for a token arrives
\* only when no earlier check of that token is still pending or running.
LiveIdle(t) ==
    /\ \A i \in 1..Len(timers) : timers[i].tokenId # t
    /\ \A c \in BagToSet(liveChecks) : c.tokenId # t

NextSerial ==
    \/ \E o \in Owners, t \in Tokens : LiveIdle(t) /\ handleStakingLog(o, t)
    \/ TimerFires
    \/ \E c \in BagToSet(liveChecks) : LiveFetchFails(c)
    \/ \E c \in BagToSet(liveChecks), i \in Images, l \in Levels : LiveFetchReturns(c, i, l)
    \/ \E c \in BagToSet(liveChecks), lo \in BOOLEAN, so \in BOOLEAN : LiveTweetReturns(c, lo, so)
    \/ \E c \in BagToSet(liveChecks) : LiveStoreReturns(c)
    \/ \E c \in BagToSet(liveChecks) : LiveStoreFails(c)

SpecSerial == InitLive /\ [][NextSerial]_vars


\* The retry queue alone, over every content of the State Store, with a
\* notifier that is logged in and does not fail (tweetReveal never throws, so
\* what Twitter answers changes nothing in the queue).
QueueImages == {UNREVEALED_URL, HeroImage, NoImage}
\* Two owners stake the same token: two pairs, hence two jobs, of one token.
QueuePairs == {<<5, "0xAA">>, <<5, "0xBB">>}
QueueStores == {db \in [Tokens -> StoreValues] : db[42] = "unrevealed"}
\* The queue is empty, or holds a job that has failed in four cycles already.
QueueStarts == {<<>>, <<Job(5, "0xAA", MAX_RETRIES_PER_JOB - 1)>>}

InitQueue ==
    /\ store \in QueueStores
    /\ unrevealedTokensSet = FindUnrevealed(store)
    /\ timers = <<>>
    /\ liveChecks = EmptyBag
    /\ stakedDelivered = [t \in Tokens |-> 0]
    /\ liveTweetCalls = [t \in Tokens |-> 0]
    /\ tweetPosts = [t \in Tokens |-> 0]
    /\ isInitialized = TRUE
    /\ pendingReveals \in QueueStarts
    /\ cycles = <<>>
    /\ enqueued = 0
    /\ cyclesStarted = 0
    /\ retryTweetCalls = [t \in Tokens |-> 0]
    /\ RestIdle

NextQueue ==
    \/ \E p \in QueuePairs : enqueueReveal(p[1], p[2])
    \/ processQueueOnce
    \/ \E id \in LiveTaskIds : TaskCheckReturns(id)
    \/ \E id \in LiveTaskIds : TaskCheckFails(id)
    \/ \E id \in LiveTaskIds, ok \in BOOLEAN, i \in QueueImages :
          TaskAlertReturns(id, ok, i, TRUE, TRUE)
    \/ \E id \in LiveTaskIds : TaskStoreReturns(id)
    \/ \E id \in LiveTaskIds : TaskStoreFails(id)
    \/ \E k \in 1..Len(cycles) : CycleEnds(k)

SpecQueue == InitQueue /\ [][NextQueue]_vars

\* The retry queue with an interval that ticks while the cycle of the tick
\* before is still awaiting its tasks: setInterval does not wait for the
\* promise of processQueueOnce.
NextOverlap ==
    \/ \E p \in QueuePairs : enqueueReveal(p[1], p[2])
    \/ StartCycle(MaxTicksInFlight)
    \/ \E id \in LiveTaskIds : TaskCheckReturns(id)
    \/ \E id \in LiveTaskIds : TaskCheckFails(id)
    \/ \E id \in LiveTaskIds, ok \in BOOLEAN, i \in QueueImages :
          TaskAlertReturns(id, ok, i, TRUE, TRUE)
    \/ \E id \in LiveTaskIds : TaskStoreReturns(id)
    \/ \E id \in LiveTaskIds : TaskStoreFails(id)
    \/ \E k \in 1..Len(cycles) : CycleEnds(k)

SpecOverlap == InitQueue /\ [][NextOverlap]_vars

\* The live path and the retry queue side by side on token 5, watched and
\* unrevealed in the store, with a metadata source that answers every fetch
\* and a State Store and a notifier that do not fail.
RaceImages == {UNREVEALED_URL, HeroImage}

InitRace ==
    /\ store = [t \in Tokens |-> "unrevealed"]
    /\ unrevealedTokensSet = FindUnrevealed(store)
    /\ timers = <<>>
    /\ liveChecks = EmptyBag
    /\ stakedDelivered = [t \in Tokens |-> 0]
    /\ liveTweetCalls = [t \in Tokens |-> 0]
    /\ tweetPosts = [t \in Tokens |-> 0]
    /\ isInitialized = TRUE
    /\ QueueIdle
    /\ RestIdle

NextRace ==
    \/ handleStakingLog("0xAA", 5)
    \/ TimerFires
    \/ \E c \in BagToSet(liveChecks), i \in RaceImages : LiveFetchReturns(c, i, NoLevel)
    \/ \E c \in BagToSet(liveChecks) : LiveTweetReturns(c, TRUE, TRUE)
    \/ \E c \in BagToSet(liveChecks) : LiveStoreReturns(c)
    \/ enqueueReveal(5, "0xAA")
    \/ processQueueOnce
    \/ \E id \in LiveTaskIds : TaskCheckReturns(id)
    \/ \E id \in LiveTaskIds, i \in RaceImages : TaskAlertReturns(id, TRUE, i, TRUE, TRUE)
    \/ \E id \in LiveTaskIds : TaskStoreReturns(id)
    \/ \E k \in 1..Len(cycles) : CycleEnds(k)

SpecRace == InitRace /\ [][NextRace]_vars

\* The registry and the staking monitor's loads next to one run of the bulk
\* script, over every content of the State Store, before main has started a
\* monitor.  Nothing the script awaits fails here.
ReconnectImages == {UNREVEALED_URL, HeroImage}

InitReconnect ==
    /\ store \in [Tokens -> StoreValues]
    /\ unrevealedTokensSet = {}
    /\ timers = <<>>
    /\ liveChecks = EmptyBag
    /\ stakedDelivered = [t \in Tokens |-> 0]
    /\ liveTweetCalls = [t \in Tokens |-> 0]
    /\ tweetPosts = [t \in Tokens |-> 0]
    /\ isInitialized = TRUE
    /\ QueueIdle
    /\ RestIdle

NextReconnect ==
    \/ monitorStakingEvents
    \/ \E ok \in BOOLEAN : monitorEndgameEvents(ok)
    \/ \E k \in LoadCallers, ok \in BOOLEAN : LoadReturns(k, ok)
    \/ \E k \in LoadCallers, ok \in BOOLEAN : LoadFails(k, ok)
    \/ \E ok \in BOOLEAN : onOpen(ok)
    \/ onClose
    \/ initAllMetadata
    \/ ScriptFindReturns
    \/ ScriptDistinctReturns
    \/ \E t \in Tokens, i \in ReconnectImages : ScriptFetchReturns(t, i)
    \/ \E t \in Tokens : ScriptUpsertReturns(t)
    \/ ScriptLoopEnds

SpecReconnect == InitReconnect /\ [][NextReconnect]_vars

\* One run of the bulk script next to the live path and a detectAndStoreReveal
\* call.  Token 5 is watched; what the script awaits for token 5 may fail,
\* what it awaits for token 42 does not.
BulkImages == {UNREVEALED_URL, OtherUnrevealedImage, HeroImage, NoImage}
BulkStores == {db \in [Tokens -> StoreValues] : db[5] = "unrevealed"}

InitBulk ==
    /\ store \in BulkStores
    /\ unrevealedTokensSet = FindUnrevealed(store)
    /\ timers = <<>>
    /\ liveChecks = EmptyBag
    /\ stakedDelivered = [t \in Tokens |-> 0]
    /\ liveTweetCalls = [t \in Tokens |-> 0]
    /\ tweetPosts = [t \in Tokens |-> 0]
    /\ isInitialized = TRUE
    /\ QueueIdle
    /\ RestIdle

NextBulk ==
    \/ initAllMetadata
    \/ ScriptFindReturns
    \/ ScriptDistinctReturns
    \/ ScriptQueryFails
    \/ \E t \in Tokens, i \in BulkImages : ScriptFetchReturns(t, i)
    \/ ScriptFetchFails(5)
    \/ \E t \in Tokens : ScriptUpsertReturns(t)
    \/ ScriptUpsertFails(5)
    \/ ScriptLoopEnds
    \/ handleStakingLog("0xAA", 5)
    \/ TimerFires
    \/ \E c \in BagToSet(liveChecks) : LiveFetchReturns(c, HeroImage, NoLevel)
    \/ \E c \in BagToSet(liveChecks) : LiveTweetReturns(c, TRUE, TRUE)
    \/ \E c \in BagToSet(liveChecks) : LiveStoreReturns(c)
    \/ detectAndStoreReveal(5)
    \/ \E c \in BagToSet(detects), i \in BulkImages : DetectFetchReturns(c, i)
    \/ \E c \in BagToSet(detects) : DetectFetchFails(c)
    \/ \E c \in BagToSet(detects) : DetectUpsertReturns(c)
    \/ \E c \in BagToSet(detects) : DetectUpsertFails(c)

SpecBulk == InitBulk /\ [][NextBulk]_vars

\* One run of the bulk script alone, over every content of the State Store,
\* where every fetch and every upsert may fail and every awaited call settles.
NextScript ==
    \/ initAllMetadata
    \/ ScriptFindReturns
    \/ ScriptDistinctReturns
    \/ ScriptQueryFails
    \/ \E t \in Tokens, i \in {UNREVEALED_URL, HeroImage, NoImage} : ScriptFetchReturns(t, i)
    \/ \E t \in Tokens : ScriptFetchFails(t)
    \/ \E t \in Tokens : ScriptUpsertReturns(t)
    \/ \E t \in Tokens : ScriptUpsertFails(t)
    \/ ScriptLoopEnds

SpecScript == InitReconnect /\ [][NextScript]_vars /\ WF_vars(NextScript)

\* The Death monitor and a subscription made by watchEventWithErrorHandling
\* whose caller's handlers may throw, next to a store, a Working Set and a
\* retry queue that hold something.
InitEvents ==
    /\ store \in QueueStores
    /\ unrevealedTokensSet = FindUnrevealed(store)
    /\ timers = <<>>
    /\ liveChecks = EmptyBag
    /\ stakedDelivered = [t \in Tokens |-> 0]
    /\ liveTweetCalls = [t \in Tokens |-> 0]
    /\ tweetPosts = [t \in Tokens |-> 0]
    /\ isInitialized \in BOOLEAN
    /\ pendingReveals \in QueueStarts
    /\ cycles = <<>>
    /\ enqueued = 0
    /\ cyclesStarted = 0
    /\ retryTweetCalls = [t \in Tokens |-> 0]
    /\ RestIdle

NextEvents ==
    \/ \E ok \in BOOLEAN : monitorEndgameEvents(ok)
    \/ \E logs \in {<<DeathLog(5, TRUE)>>,
                     <<DeathLog(5, TRUE), DeathLog(42, TRUE)>>,
                     <<DeathLog(5, FALSE), DeathLog(42, TRUE)>>} : DeathOnLogs(logs)
    \/ \E r \in 1..Len(deathRuns) : \E i \in 1..Len(deathRuns[r]) : DeathFetchFails(r, i)
    \/ \E r \in 1..Len(deathRuns) : \E i \in 1..Len(deathRuns[r]), wf \in BOOLEAN :
          DeathFetchReturns(r, i, wf)
    \/ \E r \in 1..Len(deathRuns) : \E i \in 1..Len(deathRuns[r]), lo \in BOOLEAN :
          DeathTweetReturns(r, i, lo)
    \/ \E o \in {"returns", "throws", "rejects"}, h \in BOOLEAN, t \in BOOLEAN :
          WatchLogs(o, h, t)
    \/ \E h \in BOOLEAN, t \in BOOLEAN : WatchError(h, t)

SpecEvents == InitEvents /\ [][NextEvents]_vars

\* The start of the process: main from its call to the heartbeat, over every
\* content of the State Store, with a State Store connection, a login and
\* watchEvent calls that may fail.
InitStartup ==
    /\ store \in [Tokens -> StoreValues]
    /\ unrevealedTokensSet = {}
    /\ timers = <<>>
    /\ liveChecks = EmptyBag
    /\ stakedDelivered = [t \in Tokens |-> 0]
    /\ liveTweetCalls = [t \in Tokens |-> 0]
    /\ tweetPosts = [t \in Tokens |-> 0]
    /\ isInitialized = FALSE
    /\ QueueIdle
    /\ RestIdle

NextStartup ==
    \/ main
    \/ ConnectReturns
    \/ ConnectFails
    \/ \E ok \in BOOLEAN : TwitterReturns(ok)
    \/ \E ok \in BOOLEAN : LoadReturns("startup", ok)
    \/ \E ok \in BOOLEAN : LoadFails("startup", ok)
    \/ \E ok \in BOOLEAN : StakingReturns(ok)

SpecStartup == InitStartup /\ [][NextStartup]_vars

\* The same with the event loop running every continuation that is ready and
\* every awaited call of main settling.
SpecStartupFair == SpecStartup /\ WF_vars(NextStartup)

\* The process from its start to its exit: main, the Staked logs that arrive
\* once the subscription is set up, their checks, and the signals.  Nothing
\* runs after process.exit.
NextShutdown ==
    \/ main
    \/ ConnectReturns
    \/ ConnectFails
    \/ \E ok \in BOOLEAN : TwitterReturns(ok)
    \/ \E ok \in BOOLEAN : exitCode = <<>> /\ LoadReturns("startup", ok)
    \/ \E ok \in BOOLEAN : exitCode = <<>> /\ LoadFails("startup", ok)
    \/ \E ok \in BOOLEAN : StakingReturns(ok)
    \/ \E signal \in {"SIGINT", "SIGTERM", "SIGUSR2"} : onSignal(signal)
    \/ GraceElapsed
    \/ \E o \in Owners, t \in Tokens :
          exitCode = <<>> /\ stakingSubs > 0 /\ LiveIdle(t) /\ handleStakingLog(o, t)
    \/ exitCode = <<>> /\ TimerFires
    \/ \E c \in BagToSet(liveChecks) : exitCode = <<>> /\ LiveFetchFails(c)
    \/ \E c \in BagToSet(liveChecks), i \in Images, l \in Levels :
          exitCode = <<>> /\ LiveFetchReturns(c, i, l)
    \/ \E c \in BagToSet(liveChecks), lo \in BOOLEAN, so \in BOOLEAN :
          exitCode = <<>> /\ LiveTweetReturns(c, lo, so)
    \/ \E c \in BagToSet(liveChecks) : exitCode = <<>> /\ LiveStoreReturns(c)
    \/ \E c \in BagToSet(liveChecks) : exitCode = <<>> /\ LiveStoreFails(c)

SpecShutdown == InitStartup /\ [][NextShutdown]_vars

\* The process from its start, with a State Store connection that succeeds, a
\* socket that opens and closes, and the Staked logs that arrive once a
\* subscription is set up, checked against a metadata source that answers
\* every fetch with a resolved image and no level.
NextBootstrap ==
    \/ main
    \/ ConnectReturns
    \/ \E ok \in BOOLEAN : TwitterReturns(ok)
    \/ \E k \in LoadCallers, ok \in BOOLEAN : LoadReturns(k, ok)
    \/ \E k \in LoadCallers, ok \in BOOLEAN : LoadFails(k, ok)
    \/ \E ok \in BOOLEAN : StakingReturns(ok)
    \/ \E ok \in BOOLEAN : onOpen(ok)
    \/ onClose
    \/ \E t \in Tokens : stakingSubs > 0 /\ handleStakingLog("0xAA", t)
    \/ TimerFires
    \/ \E c \in BagToSet(liveChecks) : LiveFetchReturns(c, HeroImage, NoLevel)
    \/ \E c \in BagToSet(liveChecks), lo \in BOOLEAN, so \in BOOLEAN : LiveTweetReturns(c, lo, so)
    \/ \E c \in BagToSet(liveChecks) : LiveStoreReturns(c)

SpecBootstrap == InitStartup /\ [][NextBootstrap]_vars

\* The registry and the monitors' loads next to the transport's reconnection
\* tries, over every content of the State Store.
NextBackoff ==
    \/ monitorStakingEvents
    \/ \E ok \in BOOLEAN : monitorEndgameEvents(ok)
    \/ \E k \in LoadCallers, ok \in BOOLEAN : LoadReturns(k, ok)
    \/ \E k \in LoadCallers, ok \in BOOLEAN : LoadFails(k, ok)
    \/ \E ok \in BOOLEAN : onOpen(ok)
    \/ onClose
    \/ onReconnect

SpecBackoff == InitReconnect /\ [][NextBackoff]_vars

\* The retry queue with more jobs than p-limit has slots: six jobs of six
\* (tokenId, owner) pairs, token 5 unrevealed and token 42 revealed in the
\* store, with a metadata source, a notifier and a store that do not fail.
InitDrain ==
    /\ store = [t \in Tokens |-> IF t = 5 THEN "unrevealed" ELSE "revealed"]
    /\ unrevealedTokensSet = FindUnrevealed(store)
    /\ timers = <<>>
    /\ liveChecks = EmptyBag
    /\ stakedDelivered = [t \in Tokens |-> 0]
    /\ liveTweetCalls = [t \in Tokens |-> 0]
    /\ tweetPosts = [t \in Tokens |-> 0]
    /\ isInitialized = TRUE
    /\ pendingReveals = <<Job(5, "0xAA", 0), Job(5, "0xBB", 0), Job(42, "0xAA", 0),
                          Job(42, "0xBB", 0), Job(5, "0xCC", 0), Job(42, "0xCC", 0)>>
    /\ cycles = <<>>
    /\ enqueued = 0
    /\ cyclesStarted = 0
    /\ retryTweetCalls = [t \in Tokens |-> 0]
    /\ RestIdle

NextDrain ==
    \/ processQueueOnce
    \/ \E id \in LiveTaskIds : TaskCheckReturns(id)
    \/ \E id \in LiveTaskIds : TaskAlertReturns(id, TRUE, HeroImage, TRUE, TRUE)
    \/ \E id \in LiveTaskIds : TaskStoreReturns(id)
    \/ \E k \in 1..Len(cycles) : CycleEnds(k)

SpecDrain == InitDrain /\ [][NextDrain]_vars

\* ------------------------------------------------------------------ claims

\* C1: a watched token whose Staked log was delivered twice has, once both
\* checks have run to their end against a resolved metadata source, exactly one
\* tweetReveal call and a State Store record with revealed = true.
C1_StakedTwiceTweetsOnce ==
    \A t \in Tokens :
        (stakedDelivered[t] = 2 /\ LiveIdle(t))
            => (liveTweetCalls[t] = 1 /\ store[t] = "revealed")

\* C2: a live check and a retry-queue job of the same token never both call
\* tweetReveal for it.
C2_OnePathTweets ==
    \A t \in Tokens : ~(liveTweetCalls[t] > 0 /\ retryTweetCalls[t] > 0)

C3_KeepsRevealed == \A t \in Tokens : store[t] = "revealed" => store'[t] = "revealed"

\* C3: no step of any component takes a token's record from revealed = true
\* to revealed = false.
C3_RevealedIsMonotonic == [][C3_KeepsRevealed]_vars

\* C4: the number of successful reveal posts for a token never exceeds one,
\* also when the write that follows a successful post fails and a later
\* Staked log for the token arrives.
C4_AtMostOnePost == \A t \in Tokens : tweetPosts[t] <= 1

C5_Pairs(queue) == {<<queue[i].tokenId, queue[i].owner>> : i \in 1..Len(queue)}

C5_NoDuplicatePair ==
    \A i, j \in 1..Len(pendingReveals) :
        (/\ pendingReveals[i].tokenId = pendingReveals[j].tokenId
         /\ pendingReveals[i].owner = pendingReveals[j].owner) => i = j

C5_EnqueueStep ==
    enqueued' = enqueued + 1 =>
        \/ pendingReveals' = pendingReveals
        \/ /\ Len(pendingReveals') = Len(pendingReveals) + 1
           /\ SubSeq(pendingReveals', 1, Len(pendingReveals)) = pendingReveals
           /\ pendingReveals'[Len(pendingReveals')].retryCount = 0
           /\ C5_Pairs(<<pendingReveals'[Len(pendingReveals')]>>)
                 \cap C5_Pairs(pendingReveals) = {}

\* C5: pendingReveals never holds two jobs of one (tokenId, owner) pair, and
\* an enqueueReveal call either leaves the queue as it was or appends a job
\* with retryCount 0 of a pair that was not queued.
C5_DedupeOnEnqueue == []C5_NoDuplicatePair /\ [][C5_EnqueueStep]_vars

\* Two enqueueReveal calls, no cycle yet, one job: one call was deduped.
C5_Witness == enqueued = 2 /\ cyclesStarted = 0 /\ Len(pendingReveals) = 1

C6_SentinelStep ==
    /\ \A c \in BagToSet(liveChecks) :
          LiveFetchReturns(c, UNREVEALED_URL, NoLevel)
             => UNCHANGED <<store, unrevealedTokensSet, liveTweetCalls, tweetPosts>>
    /\ \A id \in LiveTaskIds :
          TaskAlertReturns(id, TRUE, UNREVEALED_URL, TRUE, TRUE)
             => UNCHANGED <<store, unrevealedTokensSet, retryTweetCalls, tweetPosts>>

\* C6: the step in which a check, live or retry, gets the sentinel image from
\* the metadata source writes nothing to the store, calls tweetReveal zero
\* times and leaves the Working Set as it was.
C6_PlaceholderNoOp == [][C6_SentinelStep]_vars

\* C7: a job whose metadata fetch failed is counted as failed in that cycle
\* (re-pushed below the ceiling, abandoned at it): it never goes on to call
\* setHeroRevealed, so the store keeps revealed = false for its token.
C7_FailedFetchNeverWrites ==
    \A id \in LiveTaskIds :
        TaskAt(id).pc = "store" => TaskAt(id).fetched # FetchFailed

C8_AboveOne(level) == level \in {<<n>> : n \in 2..9}

C8_CheckShape(c) ==
    /\ c.pc = "tweet" => (~C8_AboveOne(c.level) /\ c.tweeted = 1)
    /\ c.pc = "store" => c.tweeted = (IF C8_AboveOne(c.level) THEN 0 ELSE 1)

C8_WriteStep ==
    \A c \in BagToSet(liveChecks) :
        (c.pc = "store" /\ CopiesIn(c, liveChecks') < CopiesIn(c, liveChecks))
            => \/ /\ store'[c.tokenId] = "revealed"
                  /\ c.tokenId \notin unrevealedTokensSet'
                  /\ liveTweetCalls' = liveTweetCalls
               \/ UNCHANGED <<store, unrevealedTokensSet, liveTweetCalls>>

\* C8: a resolved live check whose level is above 1 reaches the write without
\* having called tweetReveal; any other resolved live check has called
\* tweetReveal exactly once before the write; and a write that succeeds leaves
\* revealed = true in the store and the token outside the Working Set.
C8_LevelSuppression ==
    /\ [](\A c \in BagToSet(liveChecks) : C8_CheckShape(c))
    /\ [][C8_WriteStep]_vars

C8_Witness ==
    \E c \in BagToSet(liveChecks) :
        c.pc = "store" /\ c.level = <<2>> /\ c.tweeted = 0 /\ c.image = HeroImage

C9_ReplayStep == opens' = opens + 1 => restoreLog' = activeSubscriptions

\* C9: every onOpen calls each callback of activeSubscriptions exactly once, in
\* registration order, whether or not one of them throws.
C9_ReconnectReplay == [][C9_ReplayStep]_vars

\* The second onOpen called the endgame closure and then the staking closure,
\* and the only Death subscription is the one of the registration: the closure
\* threw in every onOpen that called it.
C9_Witness ==
    /\ opens = 2
    /\ activeSubscriptions = <<"endgame", "staking">>
    /\ restoreLog = <<"endgame", "staking">>
    /\ deathSubs = 1

C10_ReloadStep ==
    LoadReturns("reconnect", TRUE) => unrevealedTokensSet' = FindUnrevealed(store)

\* C10: when the staking reconnect closure has reloaded, the Working Set is
\* exactly the set of tokens whose record has revealed = false in the store.
C10_ReloadOnReconnect == [][C10_ReloadStep]_vars

\* C11: a token whose one Staked log was delivered, record or no record in the
\* State Store at startup, has, once its check has run to its end against a
\* resolved metadata source with no level, exactly one tweetReveal call and a
\* record with revealed = true.
C11_UnknownTokenRevealed ==
    \A t \in Tokens :
        (stakedDelivered[t] = 1 /\ LiveIdle(t))
            => (liveTweetCalls[t] = 1 /\ store[t] = "revealed")

C12_IgnoredStep ==
    \A t \in Tokens :
        (stakedDelivered'[t] = stakedDelivered[t] + 1 /\ t \notin unrevealedTokensSet)
            => UNCHANGED <<store, unrevealedTokensSet, timers, liveChecks,
                           liveTweetCalls, twitterVars, queueVars>>

\* C12: the delivery of a Staked log whose token is not in the Working Set sets
\* no timer, starts no check, writes nothing to the store, calls tweetReveal
\* zero times and leaves the Working Set and the retry queue as they were.
C12_UnwatchedIsIgnored == [][C12_IgnoredStep]_vars

\* A Staked log of a token with a revealed record was delivered and nothing
\* was scheduled for it.
C12_Witness ==
    /\ stakedDelivered[42] = 1
    /\ store[42] = "revealed"
    /\ 42 \notin unrevealedTokensSet
    /\ LiveIdle(42)

C13_FailedFetchStep ==
    \A c \in BagToSet(liveChecks) :
        LiveFetchFails(c) => alreadyInQueue(pendingReveals', c.tokenId, c.owner)

\* C13: the step in which the settle-delay fetch of a live check fails leaves
\* a Retry Job for the check's (tokenId, owner) in the retry queue.
C13_FailedFetchIsRequeued == [][C13_FailedFetchStep]_vars

C14_SkipStep ==
    \A id \in LiveTaskIds :
        (store[TaskAt(id).job.tokenId] = "revealed" /\ TaskCheckReturns(id))
            => /\ cycles'[id[1]].tasks[id[2]] = Task(TaskAt(id).job, "done", Skipped)
               /\ cycles'[id[1]].nextPending = cycles[id[1]].nextPending
               /\ UNCHANGED <<store, retryTweetCalls, twitterVars, pendingReveals>>

C14_SkippedFromCheck ==
    Len(cycles') = Len(cycles) =>
        \A id \in LiveTaskIds :
            (cycles'[id[1]].tasks[id[2]].fetched = Skipped /\ TaskAt(id).fetched # Skipped)
                => (TaskAt(id).pc = "check" /\ store[TaskAt(id).job.tokenId] = "revealed")

C14_CycleEndStep ==
    \A k \in 1..Len(cycles) :
        CycleEnds(k) =>
            \A i \in 1..Len(cycles[k].tasks) :
                cycles[k].tasks[i].fetched = Skipped
                    => ~alreadyInQueue(pendingReveals', cycles[k].tasks[i].job.tokenId,
                                       cycles[k].tasks[i].job.owner)

\* C14: a job whose isHeroRevealed read answers true ends at that step, without
\* a metadata fetch, a tweetReveal call or a store write and without a re-push;
\* no other step ends a job that way; and the queue installed at the end of
\* its cycle does not hold the job.
C14_RevealedJobIsDropped ==
    [][C14_SkipStep /\ C14_SkippedFromCheck /\ C14_CycleEndStep]_vars

\* The one job of a cycle, of a revealed token, was skipped: the cycle is about
\* to install an empty queue, and tweetReveal was not called.
C14_Witness ==
    /\ store[5] = "revealed"
    /\ Len(cycles) = 1
    /\ Len(cycles[1].tasks) = 1
    /\ cycles[1].tasks[1].job.tokenId = 5
    /\ cycles[1].tasks[1].pc = "done"
    /\ cycles[1].tasks[1].fetched = Skipped
    /\ cycles[1].nextPending = <<>>
    /\ retryTweetCalls[5] = 0

C15_HandlerStep ==
    wrapperCalls' = wrapperCalls + 1 =>
        /\ escaped' = escaped
        /\ UNCHANGED <<stakingSubs, deathSubs, activeSubscriptions>>

\* C15: no exception or rejection of a caller's onLogs and no exception of a
\* caller's onError leaves safeOnLogs or safeOnError, and a call of either
\* wrapped handler leaves the subscriptions as they were.
C15_HandlerContainment == [](escaped = 0) /\ [][C15_HandlerStep]_vars

\* One wrapped call in which onLogs failed and the onError called for it threw
\* as well: two exceptions caught, none out.
C15_Witness == wrapperCalls = 1 /\ onErrorCalls = 1 /\ caught = 2 /\ escaped = 0

\* C16: in a batch, no log waits to be handled while an earlier log of the
\* batch is still awaiting its metadata fetch or its notification.
C16_NoLogWaitsOnSibling ==
    \A r \in 1..Len(deathRuns) :
        \A i, j \in 1..Len(deathRuns[r]) :
            (i < j /\ deathRuns[r][i].pc \in {"fetch", "tweet"})
                => deathRuns[r][j].pc # "waiting"

C17_OncePerLog ==
    \A r \in 1..Len(deathRuns) :
        \A i \in 1..Len(deathRuns[r]) :
            /\ deathRuns[r][i].fetches <= 1
            /\ deathRuns[r][i].tweets <= 1
            /\ deathRuns[r][i].pc = "failed" => deathRuns[r][i].tweets = 0

C17_DeathStep ==
    deathRuns' # deathRuns =>
        UNCHANGED <<store, unrevealedTokensSet, timers, liveChecks, pendingReveals, cycles>>

C18_FailedCalls(t) ==
    liveTweetCalls[t] - tweetPosts[t]
        - SumOver([c \in BagToSet(liveChecks) |->
                      IF c.tokenId = t /\ c.pc = "tweet" THEN CopiesIn(c, liveChecks) ELSE 0],
                  BagToSet(liveChecks))

C18_NoCallAfterFailureStep ==
    \A t \in Tokens :
        (C18_FailedCalls(t) > 0 /\ store[t] = "revealed" /\ t \notin unrevealedTokensSet)
            => liveTweetCalls'[t] = liveTweetCalls[t]

C18_TweetReturnStep ==
    \A c \in BagToSet(liveChecks) :
        (c.pc = "tweet" /\ CopiesIn(c, liveChecks') < CopiesIn(c, liveChecks))
            => /\ CopiesIn([c EXCEPT !.pc = "store"], liveChecks')
                     > CopiesIn([c EXCEPT !.pc = "store"], liveChecks)
               /\ UNCHANGED <<liveTweetCalls, store, unrevealedTokensSet>>

C18_WriteStep ==
    \A c \in BagToSet(liveChecks) :
        (c.pc = "store" /\ CopiesIn(c, liveChecks') < CopiesIn(c, liveChecks))
            => /\ liveTweetCalls' = liveTweetCalls
               /\ \/ store'[c.tokenId] = "revealed" /\ c.tokenId \notin unrevealedTokensSet'
                  \/ UNCHANGED <<store, unrevealedTokensSet>>

C18_SettledStep ==
    \A t \in Tokens :
        (LiveIdle(t) /\ t \notin unrevealedTokensSet)
            => /\ liveTweetCalls'[t] = liveTweetCalls[t]
               /\ t \notin unrevealedTokensSet'
               /\ \A i \in 1..Len(timers') : timers'[i].tokenId # t
               /\ \A c \in BagToSet(liveChecks') : c.tokenId # t

C19_WorkingSetMatchesStore ==
    (timers = <<>> /\ liveChecks = EmptyBag /\ cycles = <<>>)
        => \A t \in Tokens : t \in unrevealedTokensSet <=> store[t] = "unrevealed"

\* C20: the process never exits because a connection to the State Store
\* failed: main goes on to start the Twitter client, the monitors and the
\* retry-queue loop.
C20_DegradedStartup == ~(mainPc = "exited" /\ exitCode = <<1>> /\ ~mongoConnected)

C21_DelayShape ==
    /\ retryDelay <= 30000
    /\ attemptCount = 0 => retryDelay = 0
    /\ attemptCount = 1 => retryDelay = 1000
    /\ attemptCount >= 1 => retryDelay >= 1000

C21_AttemptStep ==
    attemptCount' = attemptCount + 1 =>
        /\ retryDelay' >= retryDelay
        /\ attemptCount >= 1 =>
              retryDelay' = (IF 2 * retryDelay < 30000 THEN 2 * retryDelay ELSE 30000)

C21_NeverGivesUp ==
    (~connected /\ opens > 0 /\ attemptCount < MaxAttempts) => ENABLED onReconnect

\* C21: the delay of attempt 1 is 1000 ms, each further attempt doubles the
\* delay up to the cap of 30000 ms, the delay never decreases and never exceeds
\* the cap, and a closed socket is retried whatever the attempt count.
C21_ReconnectBackoff ==
    [](C21_DelayShape /\ C21_NeverGivesUp) /\ [][C21_AttemptStep]_vars

\* The sixth attempt in a row is the first whose delay is the cap.
C21_Witness == attemptCount = 6 /\ retryDelay = 30000

C23_LogStep ==
    \A t \in Tokens :
        (stakedDelivered'[t] = stakedDelivered[t] + 1 /\ t \in unrevealedTokensSet)
            => /\ liveChecks' = liveChecks
               /\ Len(timers') = Len(timers) + 1
               /\ SubSeq(timers', 1, Len(timers)) = timers
               /\ timers'[Len(timers')].tokenId = t

C23_FetchStep ==
    \A c \in BagToSet(liveChecks') :
        (c.pc = "fetch" /\ CopiesIn(c, liveChecks') > CopiesIn(c, liveChecks))
            => /\ timers # <<>>
               /\ timers' = Tail(timers)
               /\ Head(timers).tokenId = c.tokenId
               /\ Head(timers).owner = c.owner

C23_NotBlocked ==
    (timers # <<>> /\ SumOver(stakedDelivered, Tokens) < MaxLogs)
        => \A o \in Owners, t \in Tokens : ENABLED handleStakingLog(o, t)

\* C23: the delivery of a Staked log of a watched token sets a timer and starts
\* no fetch; a fetch starts only in the step in which the oldest pending timer
\* fires, for that timer's token; and with timers pending the handler still
\* accepts any further log.
C23_SettleDelayIsScheduled == []C23_NotBlocked /\ [][C23_LogStep /\ C23_FetchStep]_vars

\* Two logs were handled, both delays are pending, and no fetch has started.
C23_Witness == Len(timers) = 2 /\ liveChecks = EmptyBag

C24_FailureStep ==
    \A c \in BagToSet(liveChecks) :
        (c.pc = "fetch" /\ CopiesIn(c, liveChecks') < CopiesIn(c, liveChecks)
            /\ \A d \in BagToSet(liveChecks') : CopiesIn(d, liveChecks') <= CopiesIn(d, liveChecks))
            => UNCHANGED <<store, unrevealedTokensSet, liveTweetCalls, tweetPosts>>

C24_RearmStep ==
    \A t \in Tokens :
        (stakedDelivered'[t] = stakedDelivered[t] + 1 /\ t \in unrevealedTokensSet)
            => /\ Len(timers') = Len(timers) + 1
               /\ timers'[Len(timers')].tokenId = t

\* C24: a live check that ends at its fetch, by a failure or by the sentinel
\* image, leaves the Working Set, the store and the tweets as they were; and
\* every Staked log of a token in the Working Set schedules a new check.
C24_RearmedAfterFailure == [][C24_FailureStep /\ C24_RearmStep]_vars

\* The first check of token 5 ended at its fetch and a second Staked log has
\* scheduled a new one: the token is watched and unrevealed in the store.
C24_Witness ==
    /\ stakedDelivered[5] = 2
    /\ Len(timers) = 1
    /\ timers[1].tokenId = 5
    /\ liveChecks = EmptyBag
    /\ liveTweetCalls[5] = 0
    /\ store[5] = "unrevealed"
    /\ 5 \in unrevealedTokensSet

C25_TwitterStep ==
    (mainPc = "twitter" /\ mainPc' # "twitter")
        => (mainPc' = "staking" /\ loads'["startup"] = loads["startup"] + 1)

C25_StakingStep ==
    (mainPc = "staking" /\ loads'["startup"] < loads["startup"])
        => (mainPc' = "staking" /\ loads'["startup"] = 0)

C25_EndgameStep ==
    (mainPc = "staking" /\ mainPc' # "staking") => mainPc' = "running"

\* C25: whether initTwitterClient, monitorStakingEvents or monitorEndgameEvents
\* fails or not, main goes on to the next component (monitorStakingEvents is
\* called after the login, monitorEndgameEvents after monitorStakingEvents has
\* settled) and, once the State Store is connected, reaches the end of its
\* startup.
C25_StartupIsolation ==
    /\ [][C25_TwitterStep /\ C25_StakingStep /\ C25_EndgameStep]_vars
    /\ (mainPc = "twitter" ~> mainPc = "running")

C25_Witness ==
    /\ mainPc = "running"
    /\ ~isInitialized
    /\ stakingSubs = 0
    /\ deathSubs = 0
    /\ activeSubscriptions = <<>>

C26_ExitStep ==
    (graceWaits > 0 /\ exitCode = <<>> /\ exitCode' # <<>>)
        => (exitCode' = <<0>> /\ graceWaits' = graceWaits - 1)

C26_SignalStep ==
    graceWaits' > graceWaits
        => UNCHANGED <<exitCode, liveChecks, liveTweetCalls, tweetPosts, store>>

\* C26: once a signal handler is waiting, the process exits only when a
\* 2000 ms grace wait has elapsed, and then with code 0; the signal itself
\* ends nothing and leaves the checks and notifications in flight as they are.
C26_GracefulShutdown == [][C26_ExitStep /\ C26_SignalStep]_vars

C27_Processings(job) ==
    Cardinality({id \in LiveTaskIds : TaskAt(id).job = job /\ TaskAt(id).pc # "queued"})

\* C27: the processings a job has had, one for each unit of its retryCount,
\* and the processings of it that have started since never add up to more than
\* MAX_RETRIES_PER_JOB.
C27_BoundedRetry ==
    \A id \in LiveTaskIds :
        TaskAt(id).job.retryCount + C27_Processings(TaskAt(id).job) <= MAX_RETRIES_PER_JOB

C28_RemovalStep ==
    \A t \in Tokens :
        (t \in unrevealedTokensSet /\ t \notin unrevealedTokensSet')
            => /\ store'[t] = "revealed"
               /\ unrevealedTokensSet' = unrevealedTokensSet \ {t}
               /\ \E c \in BagToSet(liveChecks) :
                     /\ c.tokenId = t
                     /\ c.pc = "store"
                     /\ liveChecks' = liveChecks (-) SetToBag({c})

C28_FailedWriteStep ==
    \A c \in BagToSet(liveChecks) :
        (c.pc = "store" /\ liveChecks' = liveChecks (-) SetToBag({c}) /\ store' = store)
            => unrevealedTokensSet' = unrevealedTokensSet

\* C28: a token leaves the Working Set only in the step in which the
\* setHeroRevealed of one of its checks has resolved (its record then has
\* revealed = true), that step removes that token alone and ends that check,
\* and a check whose setHeroRevealed is rejected leaves the set as it was.
C28_RemovalFollowsWrite == [][C28_RemovalStep /\ C28_FailedWriteStep]_vars

C28_Witness ==
    /\ liveTweetCalls[5] = 1
    /\ liveTweetCalls[42] = 1
    /\ liveChecks = EmptyBag
    /\ timers = <<>>
    /\ 5 \in unrevealedTokensSet
    /\ store[5] = "unrevealed"
    /\ 42 \notin unrevealedTokensSet
    /\ store[42] = "revealed"

C29_SentinelStep ==
    \A id \in LiveTaskIds :
        TaskAlertReturns(id, TRUE, UNREVEALED_URL, TRUE, TRUE)
            => \E i \in 1..Len(cycles'[id[1]].nextPending) :
                  cycles'[id[1]].nextPending[i] = TaskAt(id).job

\* C29: the step in which the fetch of a retry job returns the sentinel image
\* keeps the job for the next cycle with the retryCount it had: the result is
\* neither counted as an attempt nor the end of the job.
C29_PlaceholderKeepsJob == [][C29_SentinelStep]_vars

C30_FailedLoadStep ==
    LoadFails("startup", TRUE)
        => /\ unrevealedTokensSet' = unrevealedTokensSet
           /\ stakingSubs' = stakingSubs + 1
           /\ activeSubscriptions' = Append(activeSubscriptions, "staking")

C30_GrowthStep ==
    \A t \in Tokens :
        (t \notin unrevealedTokensSet /\ t \in unrevealedTokensSet')
            => /\ store[t] = "unrevealed"
               /\ \E k \in LoadCallers : loads'[k] = loads[k] - 1

C30_LogStep ==
    \A t \in Tokens :
        stakedDelivered'[t] = stakedDelivered[t] + 1
            => IF t \in unrevealedTokensSet
               THEN timers' = Append(timers, [tokenId |-> t, owner |-> "0xAA"])
               ELSE UNCHANGED <<timers, liveChecks>>

C30_StartupSetEmpty ==
    (mainPc = "staking" /\ loads["startup"] = 1) => unrevealedTokensSet = {}

\* C30: the Working Set is empty while the startup load is awaited; a
\* Hero.find that fails leaves it so, and monitorStakingEvents still sets up
\* the Staked subscription and registers its reconnect closure; a token enters
\* the set only when a later load returns with its record unrevealed; a log of
\* a token outside the set schedules nothing and a log of a token in the set
\* schedules a check.
C30_BootstrapLoadFailure ==
    /\ []C30_StartupSetEmpty
    /\ [][C30_FailedLoadStep /\ C30_GrowthStep /\ C30_LogStep]_vars

C30_Witness ==
    /\ stakedDelivered[5] = 2
    /\ Len(timers) = 1
    /\ timers[1].tokenId = 5
    /\ liveChecks = EmptyBag
    /\ liveTweetCalls[5] = 0
    /\ 5 \in unrevealedTokensSet
    /\ store[5] = "unrevealed"
    /\ opens > 0

C31_TakenBy(k, job) ==
    \E j \in 1..Len(cycles[k].tasks) :
        /\ cycles[k].tasks[j].job.tokenId = job.tokenId
        /\ cycles[k].tasks[j].job.owner = job.owner

C31_CycleEndStep ==
    \A k \in 1..Len(cycles) :
        CycleEnds(k) =>
            \A i \in 1..Len(pendingReveals) :
                ~C31_TakenBy(k, pendingReveals[i])
                    => alreadyInQueue(pendingReveals', pendingReveals[i].tokenId,
                                      pendingReveals[i].owner)

\* C31: a job that enqueueReveal added while a cycle was awaiting its tasks,
\* and that the cycle did not process, is in the queue the end of the cycle
\* installs.
C31_NoLostEnqueue == [][C31_CycleEndStep]_vars

C32_SameJob(a, b) ==
    /\ TaskAt(a).job.tokenId = TaskAt(b).job.tokenId
    /\ TaskAt(a).job.owner = TaskAt(b).job.owner

C32_OneTweetPerJob ==
    \A t \in Tokens : enqueued = 0 => retryTweetCalls[t] <= 1

\* C32: no job has a task in two cycles that are under way, and while
\* enqueueReveal has not been called the single job the queue started with
\* leads to at most one tweetReveal call.
C32_NoOverlappingProcessing ==
    /\ \A a, b \in LiveTaskIds : (a[1] # b[1]) => ~C32_SameJob(a, b)
    /\ C32_OneTweetPerJob

\* C33: at no time are there two Staked subscriptions or two Death
\* subscriptions that were set up and never unsubscribed.
C33_OneSubscriptionPerEvent == stakingSubs <= 1 /\ deathSubs <= 1

C34_WriteStep ==
    Len(cycles') = Len(cycles) =>
        \A id \in LiveTaskIds :
            (/\ TaskAt(id).pc = "store"
             /\ cycles'[id[1]].tasks[id[2]].pc = "done"
             /\ store'[TaskAt(id).job.tokenId] # store[TaskAt(id).job.tokenId])
                => TaskAt(id).fetched = Fetched

C34_FailedFetchStep ==
    \A id \in LiveTaskIds, i \in QueueImages :
        TaskAlertReturns(id, FALSE, i, TRUE, TRUE)
            => /\ cycles'[id[1]].tasks[id[2]].pc = "done"
               /\ cycles'[id[1]].nextPending =
                     IF WillRetry(TaskAt(id).job.retryCount)
                     THEN Append(cycles[id[1]].nextPending,
                                 Job(TaskAt(id).job.tokenId, TaskAt(id).job.owner,
                                     TaskAt(id).job.retryCount + 1))
                     ELSE cycles[id[1]].nextPending

\* C34: a retry task writes revealed = true for its token only when the
\* metadata fetch of that same task succeeded, and a task whose fetch failed
\* ends there as a failed attempt: re-pushed with retryCount + 1 below the
\* ceiling, abandoned at it.
C34_WriteOnlyAfterFetch == [][C34_WriteStep /\ C34_FailedFetchStep]_vars

C35_PersistStep ==
    \A t \in Tokens :
        store'[t] # store[t]
            => \E c \in BagToSet(liveChecks) :
                  /\ c.tokenId = t
                  /\ c.pc = "store"
                  /\ liveChecks' = liveChecks (-) SetToBag({c})
                  /\ store'[t] = "revealed"
                  /\ \/ LevelAboveOne(c.level)
                     \/ c.tweeted = 1 /\ liveTweetCalls[t] >= 1

C35_CallPendingStep ==
    \A c \in BagToSet(liveChecks) :
        (c.pc \in {"fetch", "tweet"} /\ CopiesIn(c, liveChecks') < CopiesIn(c, liveChecks))
            => store' = store

\* C35: every write of revealed = true by the live path is the write of a check
\* that has reached setHeroRevealed either with a level above 1 or after its
\* tweetReveal call for that token was made and had returned; a check that is
\* fetching or awaiting tweetReveal writes nothing.
C35_NotifyBeforePersist == [][C35_PersistStep /\ C35_CallPendingStep]_vars

C35_Witness ==
    /\ store[5] = "revealed"
    /\ liveTweetCalls[5] = 1
    /\ stakedDelivered[5] = 1
    /\ 5 \notin unrevealedTokensSet
    /\ liveChecks = EmptyBag
    /\ timers = <<>>

C36_Bounds ==
    /\ fullLoopCount <= MAX_FULL_LOOP
    /\ \A t \in DOMAIN scriptTasks :
          scriptTasks[t].attempt >= 1 /\ scriptTasks[t].attempt <= MAX_RETRIES_PER_TOKEN

C36_Failed(tasks) == {t \in DOMAIN tasks : tasks[t].pc = "failed"}

C36_LoopStep ==
    /\ fullLoopCount' # fullLoopCount
          => /\ fullLoopCount' = fullLoopCount + 1
             /\ fullLoopCount > 0
                   => /\ DOMAIN scriptTasks' \subseteq C36_Failed(scriptTasks)
                      /\ DOMAIN scriptTasks' # {}
    /\ (scriptPc = "loop" /\ scriptPc' = "exited")
          => (C36_Failed(scriptTasks) = {} \/ fullLoopCount = MAX_FULL_LOOP)

\* C36: a fetchAndStoreMetadata call makes at most MAX_RETRIES_PER_TOKEN
\* attempts, initAllMetadata starts at most MAX_FULL_LOOP loops, each loop after
\* the first takes its tokens from those that failed in the loop before, a run
\* leaves its loops with nothing failed or after the last loop, and every run
\* ends.
C36_BoundedBulkWork ==
    /\ []C36_Bounds
    /\ [][C36_LoopStep]_vars
    /\ (scriptPc = "find" ~> scriptPc = "exited")

C36_Witness ==
    /\ scriptPc = "loop"
    /\ fullLoopCount = 5
    /\ 5 \in DOMAIN scriptTasks
    /\ scriptTasks[5].pc = "failed"
    /\ scriptTasks[5].attempt = 5

\* ---------------------------------------------- historical monitor alone

MaxBatchLogs == 1

\* Redis values a previous run can have left: nothing, or a block number
\* written by setLastProcessedBlock.
PersistedBlocks == {<<>>, toString(0), toString(3), toString(2273307)}

\* Heads of the chain relative to the start block: behind it, at it, and up
\* to a little over two batches ahead.
LatestOffsets == {-1, 0, 1, BLOCK_BATCH_SIZE - 1, BLOCK_BATCH_SIZE,
                  2 * BLOCK_BATCH_SIZE, 2 * BLOCK_BATCH_SIZE + 7}

InitHistorical ==
    /\ store = [t \in Tokens |-> "unrevealed"]
    /\ unrevealedTokensSet = FindUnrevealed(store)
    /\ timers = <<>>
    /\ liveChecks = EmptyBag
    /\ stakedDelivered = [t \in Tokens |-> 0]
    /\ liveTweetCalls = [t \in Tokens |-> 0]
    /\ tweetPosts = [t \in Tokens |-> 0]
    /\ isInitialized = FALSE
    /\ QueueIdle
    /\ MongoSideIdle
    /\ syncPc = "idle"
    /\ lastBlockHandled \in PersistedBlocks
    /\ fromBlock = 0
    /\ latestBlock = <<>>
    /\ batches = <<>>
    /\ logsLeft = 0
    /\ revealedHeroes \in SUBSET Tokens
    /\ syncFailed = FALSE

NextHistorical ==
    \/ monitorHistorical
    \/ GetLastReturns
    \/ GetLastFails
    \/ \E d \in LatestOffsets : fromBlock + d >= 0 /\ HeadReturns(fromBlock + d)
    \/ \E n \in 0..MaxBatchLogs : QueryReturns(n)
    \/ \E t \in Tokens, ok \in BOOLEAN : HistoricalLogHandled(t, ok)
    \/ WriteReturns
    \/ SyncFails

SpecHistorical == InitHistorical /\ [][NextHistorical]_vars /\ WF_vars(NextHistorical)

\* ------------------------------------------------------------------ C37

C37_Partition ==
    /\ \A i \in 1..Len(batches) :
          /\ latestBlock # <<>>
          /\ batches[i].start <= batches[i].end
          /\ batches[i].end - batches[i].start + 1 <= BLOCK_BATCH_SIZE
          /\ batches[i].end <= latestBlock[1]
    /\ batches # <<>> => batches[1].start = fromBlock
    /\ \A i \in 1..(Len(batches) - 1) : batches[i + 1].start = batches[i].end + 1

C37_ErrorFreeRun ==
    (syncPc = "watching" /\ ~syncFailed /\ latestBlock[1] >= fromBlock)
        => /\ batches # <<>>
           /\ batches[Len(batches)].end = latestBlock[1]
           /\ lastBlockHandled # <<>>
           /\ parseInt(lastBlockHandled) = latestBlock[1]

C37_PersistStep ==
    lastBlockHandled' # lastBlockHandled
        => /\ batches # <<>>
           /\ logsLeft = 0
           /\ parseInt(lastBlockHandled') = batches[Len(batches)].end

\* C37: the batches syncHistoricalEvents queries are contiguous, do not
\* overlap, hold at most BLOCK_BATCH_SIZE blocks each, start at fromBlock and
\* stay within [fromBlock, latestBlock]; the sync always ends; it persists
\* only the end of the batch whose logs it has just finished handling; and
\* when it ends without an error the batches reach latestBlock and the
\* persisted block is latestBlock.  When an awaited call rejects, the
\* batches cover only a prefix of the range.
C37_SyncCoversPrefix ==
    /\ []C37_Partition
    /\ []C37_ErrorFreeRun
    /\ [][C37_PersistStep]_vars
    /\ (syncPc = "head" ~> syncPc = "watching")

\* Three batches, the first one persisted on the way, no error.
C37_Witness ==
    /\ syncPc = "watching"
    /\ syncFailed = FALSE
    /\ Len(batches) = 3
    /\ batches[1].end % BLOCK_WRITE_FREQUENCY = 0
    /\ batches[3].end = latestBlock[1]
    /\ parseInt(lastBlockHandled) = latestBlock[1]

\* C37 as stated: whenever the sync has returned for a head at or after
\* fromBlock, the batches queried reach latestBlock.
C37_CoversWholeRange ==
    (syncPc = "watching" /\ latestBlock # <<>> /\ latestBlock[1] >= fromBlock)
        => /\ batches # <<>>
           /\ batches[Len(batches)].end = latestBlock[1]

\* ------------------------------------------------------------------ C38

C38_Last == IF Len(lastBlockHandled) = 0 THEN FALLBACK_START_BLOCK
            ELSE parseInt(lastBlockHandled)

C38_RewindStep ==
    (syncPc = "getLast" /\ syncPc' = "head")
        => /\ fromBlock' \in {0, C38_Last - REORG_SAFETY}
           /\ fromBlock' >= C38_Last - REORG_SAFETY
           /\ fromBlock' >= 0
           /\ fromBlock' <= C38_Last

C38_FirstBlockStep ==
    /\ syncPc \notin {"idle", "getLast"} => fromBlock' = fromBlock
    /\ (batches = <<>> /\ batches' # <<>>)
          => Len(batches') = 1 /\ batches'[1].start = fromBlock

C38_WatchStep ==
    (syncPc # "watching" /\ syncPc' = "watching")
        => /\ syncPc \in {"head", "query", "handle", "write"}
           /\ \/ syncFailed'
              \/ /\ Len(latestBlock') = 1
                 /\ logsLeft' = 0
                 /\ IF batches' = <<>> THEN fromBlock > latestBlock'[1]
                    ELSE batches'[Len(batches')].end = latestBlock'[1]

\* C38: the historical monitor starts its scan at max(0, last - REORG_SAFETY),
\* last being the persisted block or FALLBACK_START_BLOCK when none is
\* persisted; that block is never negative and never after `last`; the first
\* batch queried starts there; and watchNewEvents is reached only when
\* syncHistoricalEvents has returned, through its catch or with its loop
\* condition false.
C38_RewindMargin ==
    [][C38_RewindStep /\ C38_FirstBlockStep /\ C38_WatchStep]_vars

\* Block 3 was persisted: the rewind is floored at 0 and the first batch
\* starts at block 0.
C38_Witness ==
    /\ syncPc = "query"
    /\ Len(lastBlockHandled) = 1
    /\ lastBlockHandled[1] = 3
    /\ fromBlock = 0
    /\ Len(batches) = 1
    /\ batches[1].start = 0

\* ------------------------------------------- the notifier, call by call

\* The notifier of twitter.ts with every await as a step.  A call is
\* [fn, tokenId, image, pc]: fn is the exported function called, image
\* says whether an imageUrl was passed, and pc is the await the call is
\* suspended at ("login", "media", "send") or how it ended ("sent", "failed"
\* for tweetReveal and tweetDeath, "returned", "rejected" for
\* initTwitterClient).  initTwitterClient has no token: 0 stands for none.

MaxNotifierCalls == 3

NotifierFns == {"initTwitterClient", "tweetReveal", "tweetDeath"}

\* `if (isInitialized) return` of initTwitterClient and `if (!isInitialized)`
\* of tweetReveal and tweetDeath: whether twitterClient.login is called.
LoginAlways(loggedIn) == TRUE

NeedsLogin(loggedIn) == ~loggedIn

\* Where a call stands once it is logged in (twitter.ts, lines 26-27, 79-83
\* and 107-127): initTwitterClient returns,
\* tweetReveal downloads its media, tweetDeath downloads the media of its
\* imageUrl or, without one, calls sendTweet.
LoggedInPc(fn, image) ==
    IF fn = "initTwitterClient" THEN "returned"
    ELSE IF fn = "tweetReveal" \/ image THEN "media"
    ELSE "send"

\* One of the three functions is called and runs to its first await.
NotifierCall(fn, tokenId, image) ==
    /\ Len(notifierCalls) < MaxNotifierCalls
    /\ notifierCalls' = Append(notifierCalls,
           [fn |-> fn, tokenId |-> tokenId, image |-> image,
            pc |-> IF NeedsLogin(isInitialized) THEN "login"
                   ELSE LoggedInPc(fn, image)])
    /\ UNCHANGED <<store, liveVars, twitterVars, queueVars, wsVars, detectVars,
                   scriptVars, eventVars, mainVars, backoffVars, graceWaits,
                   syncVars>>

\* twitterClient.login settled for call i.  On success initTwitterClient
\* sets isInitialized and the caller goes on; on failure it rethrows, which
\* tweetReveal and tweetDeath catch and log.
LoginReturns(i, ok) ==
    /\ i \in 1..Len(notifierCalls)
    /\ notifierCalls[i].pc = "login"
    /\ isInitialized' = (isInitialized \/ ok)
    /\ notifierCalls' = [notifierCalls EXCEPT ![i].pc =
           IF ok THEN LoggedInPc(notifierCalls[i].fn, notifierCalls[i].image)
           ELSE IF notifierCalls[i].fn = "initTwitterClient" THEN "rejected"
           ELSE "failed"]
    /\ UNCHANGED <<store, liveVars, tweetPosts, queueVars, wsVars, detectVars,
                   scriptVars, eventVars, mainVars, backoffVars, graceWaits,
                   syncVars>>

\* getMediaDataFromUrl settled for call i: sendTweet is called, or the error
\* is caught and logged.
MediaReturns(i, ok) ==
    /\ i \in 1..Len(notifierCalls)
    /\ notifierCalls[i].pc = "media"
    /\ notifierCalls' = [notifierCalls EXCEPT ![i].pc =
                            IF ok THEN "send" ELSE "failed"]
    /\ UNCHANGED <<store, liveVars, twitterVars, queueVars, wsVars, detectVars,
                   scriptVars, eventVars, mainVars, backoffVars, graceWaits,
                   syncVars>>

\* twitterClient.sendTweet settled for call i.
SendReturns(i, ok) ==
    /\ i \in 1..Len(notifierCalls)
    /\ notifierCalls[i].pc = "send"
    /\ notifierCalls' = [notifierCalls EXCEPT ![i].pc =
                            IF ok THEN "sent" ELSE "failed"]
    /\ tweetPosts' = [tweetPosts EXCEPT ![notifierCalls[i].tokenId] =
                         IF ok THEN @ + 1 ELSE @]
    /\ UNCHANGED <<store, liveVars, isInitialized, queueVars, wsVars, detectVars,
                   scriptVars, eventVars, mainVars, backoffVars, graceWaits,
                   syncVars>>

InitNotifier ==
    /\ store = [t \in Tokens |-> "unrevealed"]
    /\ unrevealedTokensSet = FindUnrevealed(store)
    /\ timers = <<>>
    /\ liveChecks = EmptyBag
    /\ stakedDelivered = [t \in Tokens |-> 0]
    /\ liveTweetCalls = [t \in Tokens |-> 0]
    /\ tweetPosts = [t \in Tokens |-> 0]
    /\ isInitialized = FALSE
    /\ QueueIdle
    /\ RestIdle

NextNotifier ==
    \/ NotifierCall("initTwitterClient", 0, FALSE)
    \/ \E t \in Tokens : NotifierCall("tweetReveal", t, TRUE)
    \/ \E t \in Tokens, image \in BOOLEAN : NotifierCall("tweetDeath", t, image)
    \/ \E i \in 1..MaxNotifierCalls, ok \in BOOLEAN : LoginReturns(i, ok)
    \/ \E i \in 1..MaxNotifierCalls, ok \in BOOLEAN : MediaReturns(i, ok)
    \/ \E i \in 1..MaxNotifierCalls, ok \in BOOLEAN : SendReturns(i, ok)

SpecNotifier == InitNotifier /\ [][NextNotifier]_vars

\* ------------------------------------------------------------------ C39

C39_SendOnlyLoggedIn ==
    \A i \in 1..Len(notifierCalls) :
        notifierCalls[i].pc = "send" => isInitialized

C39_FlagStep ==
    /\ isInitialized => isInitialized'
    /\ (~isInitialized /\ isInitialized')
          => \E i \in 1..Len(notifierCalls) :
                /\ notifierCalls[i].pc = "login"
                /\ notifierCalls'[i].pc \in {"returned", "media", "send"}

C39_LoginStep ==
    \A i \in 1..Len(notifierCalls') :
        (/\ notifierCalls'[i].pc = "login"
         /\ (i > Len(notifierCalls) \/ notifierCalls[i].pc # "login"))
            => ~isInitialized

\* C39: a call of tweetReveal or tweetDeath is at twitterClient.sendTweet
\* only while isInitialized is true; isInitialized goes from false to true
\* only at the step where a pending twitterClient.login succeeds and never
\* goes back to false; and no call of the notifier starts a login while
\* isInitialized is true.
C39_NoTweetWithoutLogin ==
    []C39_SendOnlyLoggedIn /\ [][C39_FlagStep /\ C39_LoginStep]_vars

\* A tweetDeath without image logged in and is at sendTweet, a later
\* initTwitterClient returned at once, and a tweetReveal that started before
\* the flag was set still has its own login pending.
C39_Witness ==
    /\ isInitialized
    /\ Len(notifierCalls) = 3
    /\ notifierCalls[1].fn = "tweetDeath"
    /\ notifierCalls[1].pc = "send"
    /\ notifierCalls[2].fn = "tweetReveal"
    /\ notifierCalls[2].pc = "login"
    /\ notifierCalls[3].fn = "initTwitterClient"
    /\ notifierCalls[3].pc = "returned"

====
